---- MODULE Spec2Model ----
(***************************************************************************)
(* A model of the CSV ingestion pipeline (csv_processor/tasks.py) and of   *)
(* the query view (csv_processor/views.py, csv_processor/pagination.py,    *)
(* utils/cache.py) of task-management-api.                                 *)
(*                                                                         *)
(* The specifications of the module:                                       *)
(*   SpecIngest      one Upload, its source file, the Celery task          *)
(*                   process_csv_file with its retries, the progress       *)
(*                   cache entry and the progress events;                  *)
(*   SpecNotify      SpecIngest with send_upload_completed_email;          *)
(*   SpecDelete      SpecIngest with csv_upload_delete at any moment;      *)
(*   SpecCreate      SpecIngest from the creating request on, with a fair  *)
(*                   job runtime;                                          *)
(*   SpecNormalize   the header normalization of the chunk loop;           *)
(*   SpecQuery       one Upload with its CSVData rows, the generic cache   *)
(*                   and the view csv_upload_data;                         *)
(*   SpecOffset, SpecLive, SpecFilter, SpecInvalidate                      *)
(*                   the view on a completed Upload, by kind of request,   *)
(*                   with rows deleted or the Upload deleted meanwhile;    *)
(*   SpecPair        the view on two Uploads that share the cache;         *)
(*   SpecCursor      CSVCursorPagination followed along next_cursor;       *)
(*   SpecCursorBack  the same, followed along previous_cursor as well.     *)
(* The row store is kept as a row count on the ingestion side (the real    *)
(* chunk sizes are kept, so files have tens of thousands of rows) and as   *)
(* a sequence of rows on the query side.                                   *)
(***************************************************************************)
EXTENDS Integers, Sequences, FiniteSets, TLC

VARIABLES
    file,            \* the source file: [empty, rows]
    upload,          \* the CSVUpload row in the database
    csvDataCount,    \* number of CSVData rows referencing the Upload
    task,            \* the process_csv_file execution (Celery request + locals)
    cache,           \* the cache store: key -> value
    progressEvents,  \* update_state(state="PROGRESS", meta=...) calls so far
    emailQueue,      \* send_upload_completed_email messages: queued, or how the run ended
    faults,          \* environment faults injected so far (history)
    hiProcessed,     \* highest processed_rows persisted while processing (history)
    rows,            \* query side: the CSVData rows of the Upload, by id
    resp,            \* query side: the last response of csv_upload_data
    nQueries,        \* query side: number of requests served
    walk,            \* cursor side: a client following the next_cursor chain
    peer             \* query side: a second Upload and its CSVData rows

vars == <<file, upload, csvDataCount, task, cache, progressEvents, emailQueue,
          faults, hiProcessed, rows, resp, nQueries, walk, peer>>

ingestVars == <<file, upload, csvDataCount, task, progressEvents, emailQueue, faults>>
queryVars == <<rows, resp, nQueries, walk, peer>>

-----------------------------------------------------------------------------
(* Bounds of the model *)

\* environment faults (storage, cache, broker errors) injected in one behaviour
MaxFaults == 2

\* requests served in one behaviour of SpecQuery
MaxQueries == 2

-----------------------------------------------------------------------------
(* Program constants *)

chunk_size == 50000
count_chunk_size == 10000
max_retries == 3
countdown == 10
progress_timeout == 300

\* the ids of the Uploads of the model; UploadId is the upload_id a request
\* path or a task message carries: the id of the Upload it addresses
UploadIds == {"u1", "u2"}
UploadId == upload.id
TaskId == "celery-task-1"

Min(a, b) == IF a < b THEN a ELSE b
Max(a, b) == IF a > b THEN a ELSE b

-----------------------------------------------------------------------------
(* The source file and pandas' chunked reader *)

\* data-row counts of the files ingested
FileRows == {0, 1, 50000, 50001, 100001}

\* a zero-byte file, or a file with a header row and n data rows; stored
\* while the file is in the storage (csv_upload_delete removes it)
StoredFile(n) == [empty |-> FALSE, rows |-> n, stored |-> TRUE]

Files == {[empty |-> TRUE, rows |-> 0, stored |-> TRUE]} \cup {StoredFile(n) : n \in FileRows}

\* pd.read_csv(path, chunksize=size): the lengths of the chunks the reader
\* yields for a file with a header and n data rows.  A header-only file
\* yields one empty first chunk (pandas returns the empty frame for the
\* first read and stops at the second); a zero-byte file raises
\* EmptyDataError when the reader is built (see ReadRaises).
RECURSIVE ChunkLens(_, _)
ChunkLens(n, size) ==
    IF n <= size THEN <<n>>
    ELSE <<size>> \o ChunkLens(n - size, size)

\* building the reader raises: EmptyDataError, or FileNotFoundError for a
\* file that is no longer in the storage
ReadRaises(f) == f.empty \/ ~f.stored

RECURSIVE SumSeq(_)
SumSeq(s) == IF s = <<>> THEN 0 ELSE Head(s) + SumSeq(Tail(s))

\* count_csv_rows: total_rows += len(chunk) over chunks of 10000
count_csv_rows(f) == SumSeq(ChunkLens(f.rows, count_chunk_size))

\* faulty variant: process_chunk advancing by the window size, not by len(chunk)
process_chunk_return_window(start_row, chunkLen) == start_row + chunk_size

\* process_chunk's return value: start_row + len(chunk)
process_chunk_return(start_row, chunkLen) == start_row + chunkLen

\* progress = (processed_rows / total_rows) * 100 if total_rows else 0,
\* kept as the exact fraction num/den
Progress(processed_rows, total_rows) ==
    IF total_rows # 0
    THEN [num |-> processed_rows * 100, den |-> total_rows]
    ELSE [num |-> 0, den |-> 1]

ProgressKey == <<"upload_progress", UploadId>>

-----------------------------------------------------------------------------
(* The Upload record and the task *)

\* exists: the row is in the table csv_uploads
NewUpload ==
    [id |-> "u1", exists |-> TRUE, status |-> "pending", total_rows |-> 0,
     processed_rows |-> 0,
     errors |-> <<>>, task_id |-> "none",
     started_at |-> "null", completed_at |-> "null"]

\* the message csv_upload_list_create put on the queue: process_csv_file.delay(id)
NewTask ==
    [pc |-> "queued", retries |-> 0, eta |-> 0, obj |-> NewUpload,
     total_rows |-> 0, processed_rows |-> 0, chunk |-> 0]

\* a query-string parameter read with int(): absent, not a number, or a number
Absent == [kind |-> "absent", val |-> 0]
NotANumber == [kind |-> "text", val |-> 0]
IntParam(n) == [kind |-> "int", val |-> n]

NoEnvelope == [data |-> <<>>]

NoRequest ==
    [page |-> Absent, page_size |-> Absent, sort_by |-> "id", sort_order |-> "asc",
     search |-> "", columns |-> "", filters |-> "", nocache |-> FALSE,
     pagination |-> "", cursor |-> Absent]

\* resp: what the last request was, what it was answered, and which cache
\* keys and how many row-store queries the view used on the way
NoResponse ==
    [served |-> FALSE, req |-> NoRequest, http |-> 0, error |-> "", named_status |-> "",
     env |-> NoEnvelope, reads |-> {}, writes |-> {}, rowQueries |-> 0]

\* a cursor value or None
NoneValue == [none |-> TRUE, val |-> 0]
Some(n) == [none |-> FALSE, val |-> n]

\* no second Upload
NoPeer == [upload |-> [exists |-> FALSE], rows |-> <<>>]

\* walk: the queryset ordering the caller hands to CSVCursorPagination, the
\* cursor parameter of the next call, and what the calls so far returned
NoWalk ==
    [ordering |-> "id", cursor |-> Absent, calls |-> 0, backs |-> 0, inserts |-> 0,
     first_count |-> 0, page |-> <<>>, seen |-> <<>>,
     has_next |-> FALSE, has_previous |-> FALSE,
     next_cursor |-> NoneValue, previous_cursor |-> NoneValue]

InitIngest ==
    /\ file \in Files
    /\ upload = NewUpload
    /\ csvDataCount = 0
    /\ task = NewTask
    /\ cache = << >>
    /\ progressEvents = <<>>
    /\ emailQueue = <<>>
    /\ faults = 0
    /\ hiProcessed = 0
    /\ rows = <<>>
    /\ resp = NoResponse
    /\ nQueries = 0
    /\ walk = NoWalk
    /\ peer = NoPeer

Chunks == ChunkLens(file.rows, chunk_size)

\* upload.save() writes every field of the in-memory instance: an UPDATE by
\* primary key, and an INSERT of the instance when no row has that key
Save(obj) == upload' = obj

\* cache.set(key, value, timeout)
CacheSet(c, key, value) ==
    [k \in (DOMAIN c) \cup {key} |-> IF k = key THEN value ELSE c[k]]

-----------------------------------------------------------------------------
(* process_csv_file, one action per statement group between two writes *)

Running == task.pc \notin {"queued", "success", "gave_up"}

\* lines 115-127, the except clause: re-fetch the Upload, mark it failed,
\* append str(e), save (a failure of these is logged and dropped), then
\* self.retry(exc=e, countdown=10, max_retries=3): the task is queued again
\* with retries + 1, or, with the retries used up, the exception is raised
\* and nothing further is scheduled.  used = faults injected up to here.
\* For an Upload that is no longer in the table the get of line 120 raises
\* DoesNotExist, which line 124 logs and drops.
ExceptHandler(msg, used) ==
    /\ \/ /\ upload' = IF upload.exists
                        THEN [upload EXCEPT !.status = "failed", !.errors = Append(@, msg)]
                        ELSE upload
          /\ faults' = used
       \/ /\ used < MaxFaults
          /\ faults' = used + 1
          /\ upload' = upload
    /\ task' = IF task.retries < max_retries
               THEN [task EXCEPT !.pc = "queued", !.retries = @ + 1, !.eta = countdown]
               ELSE [task EXCEPT !.pc = "gave_up"]

\* lines 36-40: fetch the Upload, mark it processing, record the start time.
\* A queued retry runs the same body again with request.retries raised.
Start ==
    /\ task.pc = "queued"
    /\ upload.exists
    /\ LET obj == [upload EXCEPT !.status = "processing", !.started_at = "set"]
       IN  /\ Save(obj)
           /\ task' = [task EXCEPT !.pc = "save_task_id", !.obj = obj, !.eta = 0,
                                   !.total_rows = 0, !.processed_rows = 0, !.chunk = 0]
    /\ UNCHANGED <<file, csvDataCount, cache, progressEvents, emailQueue, faults>>
    /\ UNCHANGED queryVars

\* lines 42-44: upload.metadata["task_id"] = self.request.id; save
SaveTaskId ==
    /\ task.pc = "save_task_id"
    /\ LET obj == [task.obj EXCEPT !.task_id = TaskId]
       IN  /\ Save(obj)
           /\ task' = [task EXCEPT !.pc = "count", !.obj = obj]
    /\ UNCHANGED <<file, csvDataCount, cache, progressEvents, emailQueue, faults>>
    /\ UNCHANGED queryVars

\* lines 49-52: total_rows = count_csv_rows(file_path); save
CountRows ==
    /\ task.pc = "count"
    /\ ~ReadRaises(file)
    /\ LET total == count_csv_rows(file)
           obj == [task.obj EXCEPT !.total_rows = total]
       IN  /\ Save(obj)
           /\ task' = [task EXCEPT !.pc = "loop", !.obj = obj, !.total_rows = total,
                                   !.processed_rows = 0, !.chunk = 0]
    /\ UNCHANGED <<file, csvDataCount, cache, progressEvents, emailQueue, faults>>
    /\ UNCHANGED queryVars

\* the reader of line 58 is built before the first chunk and raises for a
\* file that is not in the storage (a reader already built keeps its open
\* handle and reads on); bulk_create of a non-empty chunk raises
\* IntegrityError when the Upload its rows reference is not in the table
ChunkRaises ==
    \/ task.chunk = 0 /\ ReadRaises(file)
    \/ ~upload.exists /\ Chunks[task.chunk + 1] > 0

\* faulty variant: the next chunk taken without the save of lines 77-78
ProcessChunk_NoPersist ==
    /\ task.pc = "loop"
    /\ task.chunk < Len(Chunks)
    /\ ~ChunkRaises
    /\ LET len == Chunks[task.chunk + 1]
       IN  /\ csvDataCount' = csvDataCount + len
           /\ task' = [task EXCEPT !.pc = "cache_progress", !.chunk = @ + 1,
                           !.processed_rows = process_chunk_return(@, len)]
    /\ UNCHANGED <<file, upload, cache, progressEvents, emailQueue, faults>>
    /\ UNCHANGED queryVars

\* faulty variant: process_chunk returning its count without the bulk_create
\* of line 153
ProcessChunk_NoInsert ==
    /\ task.pc = "loop"
    /\ task.chunk < Len(Chunks)
    /\ ~ChunkRaises
    /\ LET len == Chunks[task.chunk + 1]
       IN  /\ csvDataCount' = csvDataCount
           /\ task' = [task EXCEPT !.pc = "save_progress", !.chunk = @ + 1,
                           !.processed_rows = process_chunk_return(@, len)]
    /\ UNCHANGED <<file, upload, cache, progressEvents, emailQueue, faults>>
    /\ UNCHANGED queryVars

\* lines 58-74 and process_chunk (141-155): read the next chunk, rename its
\* columns, bulk_create one CSVData per row (one transaction), and take
\* processed_rows = start_row + len(chunk)
ProcessChunk ==
    /\ task.pc = "loop"
    /\ task.chunk < Len(Chunks)
    /\ ~ChunkRaises
    /\ LET len == Chunks[task.chunk + 1]
       IN  /\ csvDataCount' = csvDataCount + len
           /\ task' = [task EXCEPT !.pc = "save_progress", !.chunk = @ + 1,
                           !.processed_rows = process_chunk_return(@, len)]
    /\ UNCHANGED <<file, upload, cache, progressEvents, emailQueue, faults>>
    /\ UNCHANGED queryVars

\* lines 76-78: upload.processed_rows = processed_rows; save
SaveProgress ==
    /\ task.pc = "save_progress"
    /\ LET obj == [task.obj EXCEPT !.processed_rows = task.processed_rows]
       IN  /\ Save(obj)
           /\ task' = [task EXCEPT !.pc = "cache_progress", !.obj = obj]
    /\ UNCHANGED <<file, csvDataCount, cache, progressEvents, emailQueue, faults>>
    /\ UNCHANGED queryVars

\* lines 80-82: cache.set("upload_progress_<id>", progress, 300)
CacheProgress ==
    /\ task.pc = "cache_progress"
    /\ cache' = CacheSet(cache, ProgressKey,
                         Progress(task.processed_rows, task.total_rows))
    /\ task' = [task EXCEPT !.pc = "emit"]
    /\ UNCHANGED <<file, upload, csvDataCount, progressEvents, emailQueue, faults>>
    /\ UNCHANGED queryVars

\* lines 84-92: self.update_state(state="PROGRESS", meta={current, total, progress})
EmitProgress ==
    /\ task.pc = "emit"
    /\ progressEvents' = Append(progressEvents,
            [current |-> task.processed_rows, total |-> task.total_rows,
             progress |-> Progress(task.processed_rows, task.total_rows)])
    /\ task' = [task EXCEPT !.pc = "loop"]
    /\ UNCHANGED <<file, upload, csvDataCount, cache, emailQueue, faults>>
    /\ UNCHANGED queryVars

\* faulty variant: the completion saved without its completed_at of line 96
MarkCompleted_NoTimestamp ==
    /\ task.pc = "loop"
    /\ task.chunk = Len(Chunks)
    /\ LET obj == [task.obj EXCEPT !.status = "completed"]
       IN  /\ Save(obj)
           /\ task' = [task EXCEPT !.pc = "enqueue_email", !.obj = obj]
    /\ UNCHANGED <<file, csvDataCount, cache, progressEvents, emailQueue, faults>>
    /\ UNCHANGED queryVars

\* lines 94-97: the reader is exhausted: status = completed, completed_at; save
MarkCompleted ==
    /\ task.pc = "loop"
    /\ task.chunk = Len(Chunks)
    /\ LET obj == [task.obj EXCEPT !.status = "completed", !.completed_at = "set"]
       IN  /\ Save(obj)
           /\ task' = [task EXCEPT !.pc = "enqueue_email", !.obj = obj]
    /\ UNCHANGED <<file, csvDataCount, cache, progressEvents, emailQueue, faults>>
    /\ UNCHANGED queryVars

\* faulty variant: the enqueue without its try/except: a broker error reaches the
\* except clause of line 115
EnqueueEmail_Unguarded ==
    /\ task.pc = "enqueue_email"
    /\ \/ /\ emailQueue' = Append(emailQueue, "queued")
          /\ faults' = faults
          /\ task' = [task EXCEPT !.pc = "success"]
          /\ upload' = upload
       \/ /\ faults < MaxFaults
          /\ emailQueue' = emailQueue
          /\ ExceptHandler("broker error", faults + 1)
    /\ UNCHANGED <<file, csvDataCount, cache, progressEvents>>
    /\ UNCHANGED queryVars

\* lines 103-113: send_upload_completed_email.delay(id) inside try/except
\* (a broker error is logged and dropped), then the task returns.
EnqueueEmail ==
    /\ task.pc = "enqueue_email"
    /\ \/ /\ emailQueue' = Append(emailQueue, "queued")
          /\ faults' = faults
       \/ /\ faults < MaxFaults
          /\ faults' = faults + 1
          /\ emailQueue' = emailQueue
    /\ task' = [task EXCEPT !.pc = "success"]
    /\ UNCHANGED <<file, upload, csvDataCount, cache, progressEvents>>
    /\ UNCHANGED queryVars

\* pandas raises EmptyDataError building the reader over a zero-byte file
\* (count_csv_rows, line 135), which the except clause of line 115 catches
CountRowsRaises ==
    /\ task.pc = "count"
    /\ ReadRaises(file)
    /\ ExceptHandler(IF file.stored THEN "No columns to parse from file"
                      ELSE "No such file or directory", faults)
    /\ UNCHANGED <<file, csvDataCount, cache, progressEvents, emailQueue>>
    /\ UNCHANGED queryVars

\* faulty variant: the notification task marking the Upload failed when it raises
SendUploadCompletedEmail_FailsUpload ==
    /\ \E i \in 1..Len(emailQueue) :
          /\ emailQueue[i] = "queued"
          /\ \A j \in 1..(i - 1) : emailQueue[j] # "queued"
          /\ \E outcome \in IF upload.exists
                             THEN {"sent", "send_failed", "no_recipient", "raised"}
                             ELSE {"not_found"} :
                /\ emailQueue' = [emailQueue EXCEPT ![i] = outcome]
                /\ upload' = IF outcome = "raised"
                             THEN [upload EXCEPT !.status = "failed",
                                                 !.errors = Append(@, "email")]
                             ELSE upload
    /\ UNCHANGED <<file, csvDataCount, task, cache, progressEvents, faults>>
    /\ UNCHANGED queryVars

\* send_upload_completed_email (lines 158-215), run by a worker for the
\* oldest queued message: the Upload is read (a deleted one ends the run at
\* line 165), the message is rendered and sent; with no recipient the run
\* ends at line 207, an exception of msg.send is logged at line 215, and an
\* exception of the queries or of render_to_string ends the run raising.
\* Nothing is written to the Upload or to its rows.
SendUploadCompletedEmail ==
    /\ \E i \in 1..Len(emailQueue) :
          /\ emailQueue[i] = "queued"
          /\ \A j \in 1..(i - 1) : emailQueue[j] # "queued"
          /\ \E outcome \in IF upload.exists
                             THEN {"sent", "send_failed", "no_recipient", "raised"}
                             ELSE {"not_found"} :
                /\ emailQueue' = [emailQueue EXCEPT ![i] = outcome]
                /\ upload' = upload
    /\ UNCHANGED <<file, csvDataCount, task, cache, progressEvents, faults>>
    /\ UNCHANGED queryVars

\* the statements of the try body that call the database, the file system,
\* the cache or the result backend
TryPcs == {"queued", "save_task_id", "count", "loop", "save_progress",
           "cache_progress", "emit"}

\* an environment fault: the call the task is about to make raises, its
\* write does not happen, and the except clause of line 115 runs
StepRaises ==
    /\ task.pc \in TryPcs
    /\ faults < MaxFaults
    /\ ExceptHandler("error at " \o task.pc, faults + 1)
    /\ UNCHANGED <<file, csvDataCount, cache, progressEvents, emailQueue>>
    /\ UNCHANGED queryVars

\* the cache store drops the progress entry when its TTL (300 s) runs out
ExpireProgress ==
    /\ ProgressKey \in DOMAIN cache
    /\ cache' = [k \in (DOMAIN cache) \ {ProgressKey} |-> cache[k]]
    /\ UNCHANGED ingestVars
    /\ UNCHANGED queryVars

\* history: what an observer polling the Upload has seen while it was processing
Observe ==
    hiProcessed' = IF upload'.status = "processing"
                   THEN Max(hiProcessed, upload'.processed_rows)
                   ELSE hiProcessed

IngestStep ==
    \/ Start
    \/ SaveTaskId
    \/ CountRows
    \/ CountRowsRaises
    \/ ProcessChunk
    \/ SaveProgress
    \/ CacheProgress
    \/ EmitProgress
    \/ MarkCompleted
    \/ EnqueueEmail
    \/ StepRaises
    \/ ExpireProgress

NextIngest == IngestStep /\ Observe

SpecIngest == InitIngest /\ [][NextIngest]_vars

\* SpecNotify: the ingestion of SpecIngest and the notification task
NextNotify ==
    \/ IngestStep /\ Observe
    \/ SendUploadCompletedEmail /\ UNCHANGED hiProcessed

SpecNotify == InitIngest /\ [][NextNotify]_vars

-----------------------------------------------------------------------------
(* utils.cache.invalidate_pattern and the view csv_upload_delete *)

http_no_content == 204
http_not_found == 404

\* the state of the cache backend at one call of invalidate_pattern:
\* key_function  how the backend names a key in the store: Django's default
\*               key function ("<KEY_PREFIX>:<VERSION>:<key>", that is
\*               ":1:<key>"), or a KEY_FUNCTION that stores the key as given
\* scan          scan_iter works, raises, or there is no django_redis
\* delete        the delete of the keys found works or raises
Backends ==
    [key_function : {"default", "bare"}, scan : {"ok", "raises", "unsupported"},
     delete : {"ok", "raises"}]

\* the key as set_cached_value / cache.set hand it to the backend: the
\* progress entry is set with its bare name, every other with "genericcache:"
FullKey(k) == IF k[1] = "upload_progress" THEN k ELSE <<"genericcache">> \o k

\* the name of the key in the store
StoredName(k, backend) ==
    IF backend.key_function = "default" THEN <<"", 1>> \o FullKey(k) ELSE FullKey(k)

\* the glob "<pattern>*" on a name
GlobMatch(name, pattern) ==
    /\ Len(name) >= Len(pattern)
    /\ SubSeq(name, 1, Len(pattern)) = pattern

\* invalidate_pattern (utils/cache.py 67-107): the keys that scan_iter finds
\* for "genericcache:<prefix>*" are deleted in one call.  An exception of
\* the import, the scan or the delete is caught at line 88; the raw-client
\* fallback of lines 93-102 finds no keys() on the backend client, and its
\* exception is caught at line 101: the store is left as it is.
invalidate_pattern(c, prefix, backend) ==
    LET pattern == <<"genericcache">> \o prefix
        keys == {k \in DOMAIN c : GlobMatch(StoredName(k, backend), pattern)}
    IN  IF backend.scan = "ok" /\ keys # {} /\ backend.delete = "ok"
        THEN [cache |-> [k \in (DOMAIN c) \ keys |-> c[k]], raised |-> FALSE]
        ELSE [cache |-> c, raised |-> FALSE]

\* lines 430-436: the three invalidations of csv_upload_delete
InvalidateUpload(c, backend) ==
    LET c1 == invalidate_pattern(c, <<"csv_data", UploadId>>, backend)
        c2 == invalidate_pattern(c1.cache, <<"csv_columns", UploadId>>, backend)
        c3 == invalidate_pattern(c2.cache, <<"csv_data_count", UploadId>>, backend)
    IN  [cache |-> c3.cache, raised |-> c1.raised \/ c2.raised \/ c3.raised]

\* csv_upload_delete (views.py 418-441) on an Upload that exists: the file
\* is removed from the storage, the Upload row is deleted and the delete
\* cascades to its CSVData rows, the cache is invalidated, 204 is returned.
\* The task of a running ingestion keeps its in-memory instance.  backends:
\* the states the cache backend can be in at the call.
DeleteUpload(backends) ==
    /\ upload.exists
    /\ file' = [file EXCEPT !.stored = FALSE]
    /\ upload' = [upload EXCEPT !.exists = FALSE]
    /\ csvDataCount' = 0
    /\ rows' = <<>>
    /\ \E backend \in backends :
          LET out == InvalidateUpload(cache, backend)
          IN  /\ cache' = out.cache
              /\ resp' = [NoResponse EXCEPT
                             !.served = TRUE, !.http = http_no_content,
                             !.error = "deleted",
                             !.env = [data |-> <<>>, backend |-> backend,
                                      before |-> cache, raised |-> out.raised]]
    /\ UNCHANGED <<task, progressEvents, emailQueue, faults, nQueries, walk, peer>>

\* a Redis store that is up, with Django's default key function
RedisUp == [key_function |-> "default", scan |-> "ok", delete |-> "ok"]

\* the delete racing with an ingestion
CsvUploadDelete == DeleteUpload({RedisUp})

\* line 37 in an execution that starts after the Upload was deleted:
\* CSVUpload.objects.get raises DoesNotExist
StartDoesNotExist ==
    /\ task.pc = "queued"
    /\ ~upload.exists
    /\ ExceptHandler("CSVUpload matching query does not exist.", faults)
    /\ UNCHANGED <<file, csvDataCount, cache, progressEvents, emailQueue>>
    /\ UNCHANGED queryVars

\* lines 58 and 153 raising for the deleted file or the deleted Upload
ProcessChunkRaises ==
    /\ task.pc = "loop"
    /\ task.chunk < Len(Chunks)
    /\ ChunkRaises
    /\ ExceptHandler(IF task.chunk = 0 /\ ReadRaises(file)
                     THEN "No such file or directory"
                     ELSE "insert or update on table csv_data violates foreign key constraint",
                     faults)
    /\ UNCHANGED <<file, csvDataCount, cache, progressEvents, emailQueue>>
    /\ UNCHANGED queryVars

\* SpecDelete: the ingestion of SpecIngest with a client deleting the Upload
\* at any moment
NextDelete ==
    \/ IngestStep /\ Observe
    \/ StartDoesNotExist /\ Observe
    \/ ProcessChunkRaises /\ Observe
    \/ CsvUploadDelete /\ UNCHANGED hiProcessed

SpecDelete == InitIngest /\ [][NextDelete]_vars

-----------------------------------------------------------------------------
(* csv_upload_list_create and the scheduling of the job runtime *)

\* views.py 63-92, POST: inside transaction.atomic() the Upload row is
\* inserted (line 70) and process_csv_file.delay(id) puts the message on the
\* queue (line 77); the row becomes visible to the worker when the block is
\* left and the transaction commits.  The state after line 77:
InitCreate ==
    /\ file \in Files
    /\ upload = [NewUpload EXCEPT !.exists = FALSE]
    /\ csvDataCount = 0
    /\ task = NewTask
    /\ cache = << >>
    /\ progressEvents = <<>>
    /\ emailQueue = <<>>
    /\ faults = 0
    /\ hiProcessed = 0
    /\ rows = <<>>
    /\ resp = NoResponse
    /\ nQueries = 0
    /\ walk = NoWalk
    /\ peer = NoPeer

\* the commit on leaving the block of line 68
CommitCreate ==
    /\ ~upload.exists
    /\ upload' = [upload EXCEPT !.exists = TRUE]
    /\ UNCHANGED <<file, csvDataCount, task, cache, progressEvents, emailQueue,
                   faults, hiProcessed>>
    /\ UNCHANGED queryVars

\* what a worker does with the message once it is due: the next statement
\* group of process_csv_file, or the except clause when that statement raises
\* by itself
WorkerStep ==
    \/ Start
    \/ StartDoesNotExist
    \/ SaveTaskId
    \/ CountRows
    \/ CountRowsRaises
    \/ ProcessChunk
    \/ SaveProgress
    \/ CacheProgress
    \/ EmitProgress
    \/ MarkCompleted
    \/ EnqueueEmail

NextCreate ==
    \/ CommitCreate
    \/ IngestStep /\ Observe
    \/ StartDoesNotExist /\ Observe

\* SpecCreate: the ingestion from the creating request on, under a fair job
\* runtime: the transaction commits, and a worker that is free runs the
\* queued message and every statement of a running execution.  Environment
\* faults (StepRaises) may happen and are not required to.
SpecCreate ==
    /\ InitCreate
    /\ [][NextCreate]_vars
    /\ WF_vars(CommitCreate)
    /\ WF_vars(WorkerStep /\ Observe)

-----------------------------------------------------------------------------
(* The query side: request parameters *)

\* CSVPagination / CSVStreamingPagination class attributes and view literals
default_page_size == 100
max_page_size == 500
streaming_page_size == 1000
streaming_min_page_size == 100
streaming_max_page_size == 5000
http_bad_request == 400
http_ok == 200

PageParams == {NotANumber, IntParam(0), IntParam(2)}
PageSizeParams == {IntParam(0), IntParam(2), IntParam(6000)}
SortBys == {"id"}
SortOrders == {"asc"}
Searches == {""}
ColumnsParams == {""}
\* filters texts: none, blank, malformed JSON, JSON that is no object, an object
FilterTexts == {"", " ", "{bad", "[1]", "{}"}
PaginationParams == {"", "streaming"}

Requests ==
    [page : PageParams, page_size : PageSizeParams, sort_by : SortBys,
     sort_order : SortOrders, search : Searches, columns : ColumnsParams,
     filters : FilterTexts, nocache : BOOLEAN, pagination : PaginationParams,
     cursor : {Absent}]

\* int(request.GET.get(name, default)): raises ValueError on text
ParsesInt(p) == p.kind # "text"
IntOr(p, default) == IF p.kind = "int" THEN p.val ELSE default

\* str.strip() on the texts of this model
Strip(t) ==
    CASE t = " " -> ""
      [] t = " an " -> "an"
      [] OTHER -> t

\* a JSON scalar of a filters object: a number or a string, with its str()
JsonStr(text) == [num |-> FALSE, text |-> text]
JsonNum(text) == [num |-> TRUE, text |-> text]

\* the value of one key of a filters object: a scalar or a list of scalars
Scalar(x) == [list |-> FALSE, items |-> <<x>>]
List(xs) == [list |-> TRUE, items |-> xs]

\* json.loads on the texts of this model: ok (no JSONDecodeError), the type
\* of the value, the dict as a function, and json.dumps(value, sort_keys=True)
JsonLoads(t) ==
    CASE t = "{}"  -> [ok |-> TRUE, type |-> "object", value |-> << >>, dumps |-> "{}"]
      [] t = "[1]" -> [ok |-> TRUE, type |-> "array", value |-> << >>, dumps |-> "[1]"]
      [] t = "{\"status\": \"open\"}" ->
            [ok |-> TRUE, type |-> "object", dumps |-> t,
             value |-> [c \in {"status"} |-> Scalar(JsonStr("open"))]]
      [] t = "{\"status\": [\"open\", \"clo\"]}" ->
            [ok |-> TRUE, type |-> "object", dumps |-> t,
             value |-> [c \in {"status"} |-> List(<<JsonStr("open"), JsonStr("clo")>>)]]
      [] t = "{\"status\": \"clo\"}" ->
            [ok |-> TRUE, type |-> "object", dumps |-> t,
             value |-> [c \in {"status"} |-> Scalar(JsonStr("clo"))]]
      [] t = "{\"qty\": 0}" ->
            [ok |-> TRUE, type |-> "object", dumps |-> t,
             value |-> [c \in {"qty"} |-> Scalar(JsonNum("0"))]]
      [] t = "{\"qty\": [0]}" ->
            [ok |-> TRUE, type |-> "object", dumps |-> t,
             value |-> [c \in {"qty"} |-> List(<<JsonNum("0")>>)]]
      [] t = "{\"status\": \"open\", \"name\": \"an\"}" ->
            [ok |-> TRUE, type |-> "object",
             dumps |-> "{\"name\": \"an\", \"status\": \"open\"}",
             value |-> [c \in {"name", "status"} |->
                          IF c = "name" THEN Scalar(JsonStr("an"))
                          ELSE Scalar(JsonStr("open"))]]
      [] t = "{\"name\": \"an\"}" ->
            [ok |-> TRUE, type |-> "object", dumps |-> t,
             value |-> [c \in {"name"} |-> Scalar(JsonStr("an"))]]
      [] t = "{\"name\": \"an\", \"bogus\": \"zz\"}" ->
            [ok |-> TRUE, type |-> "object",
             dumps |-> "{\"bogus\": \"zz\", \"name\": \"an\"}",
             value |-> [c \in {"name", "bogus"} |->
                          IF c = "name" THEN Scalar(JsonStr("an"))
                          ELSE Scalar(JsonStr("zz"))]]
      [] OTHER     -> [ok |-> FALSE, type |-> "none", value |-> << >>, dumps |-> ""]

\* faulty variant: the filters check accepting any text that does not load
FiltersRejected_LoadsOnly(raw) ==
    /\ Strip(raw) # ""
    /\ JsonLoads(Strip(raw)).ok
    /\ JsonLoads(Strip(raw)).type # "object"

\* lines 255-265: filters = {} unless the stripped text is non-empty, and
\* then it must load as a JSON object
FiltersRejected(raw) ==
    /\ Strip(raw) # ""
    /\ ~(JsonLoads(Strip(raw)).ok /\ JsonLoads(Strip(raw)).type = "object")

ParsedFilters(raw) ==
    IF Strip(raw) = "" THEN [value |-> << >>, dumps |-> "{}"]
    ELSE [value |-> JsonLoads(Strip(raw)).value, dumps |-> JsonLoads(Strip(raw)).dumps]

\* lines 240-241: the view's own page and page_size (they enter the cache key)
view_page(req) == Max(1, IntOr(req.page, 1))
view_page_size(req) == Min(Max(1, IntOr(req.page_size, default_page_size)), max_page_size)

\* CSVPagination._get_page_number
get_page_number(req) ==
    IF ParsesInt(req.page) THEN Max(1, IntOr(req.page, 1)) ELSE 1

\* CSVPagination._get_page_size
get_page_size(req) ==
    IF ParsesInt(req.page_size)
    THEN Min(Max(1, IntOr(req.page_size, default_page_size)), max_page_size)
    ELSE default_page_size

\* CSVStreamingPagination._get_streaming_page_size
get_streaming_page_size(req) ==
    IF ParsesInt(req.page_size)
    THEN Min(Max(streaming_min_page_size, IntOr(req.page_size, streaming_page_size)),
             streaming_max_page_size)
    ELSE streaming_page_size

\* line 338: any selector other than "streaming" is served by CSVPagination
IsStreaming(req) == req.pagination = "streaming"

-----------------------------------------------------------------------------
(* The query side: rows and cache keys *)

ColumnOrder == <<"name", "status", "qty">>

\* Python None / JSON null: the cell of an empty CSV field (tasks.py line 146)
None == "None"

\* the data of row i, as the ingestion stored it
RowData(i) ==
    [name |-> IF i % 2 = 1 THEN "Ann" ELSE "bob",
     status |-> IF i <= 2 THEN "open" ELSE "closed"]

Dataset(n) == [i \in 1..n |-> [id |-> i, data |-> RowData(i)]]

RowCounts == {0, 3}

\* list(first_row.data.keys())
DataKeys(data) == SelectSeq(ColumnOrder, LAMBDA c : c \in DOMAIN data)

\* line 268
EnvelopeKey(req) ==
    <<"csv_data", UploadId, view_page(req), view_page_size(req), req.sort_by,
      req.sort_order, Strip(req.search), Strip(req.columns),
      ParsedFilters(req.filters).dumps>>

\* faulty variant: the column-schema key built without the Upload's id
ColumnsKey_NoUpload == <<"csv_columns", "">>

\* line 281
ColumnsKey == <<"csv_columns", UploadId>>

\* CSVPagination._build_count_cache_key: model name, the raw search and
\* filters parameters and the WHERE clause of the queryset
CountKey(req, where) == <<"csv_count", "csvdata", req.search, req.filters, where>>

\* CSVPagination._build_page_cache_key
PageKey(req, page_number, page_size) ==
    <<"csv_page", "csvdata", page_number, page_size, req.search, req.filters,
      req.sort_by, req.columns>>

Reverse(s) == [i \in 1..Len(s) |-> s[Len(s) + 1 - i]]

Range(f) == {f[x] : x \in DOMAIN f}

\* the characters of the texts of this model
Chars(t) ==
    CASE t = "" -> <<>>
      [] t = "Ann" -> <<"A", "n", "n">>
      [] t = "bob" -> <<"b", "o", "b">>
      [] t = "open" -> <<"o", "p", "e", "n">>
      [] t = "closed" -> <<"c", "l", "o", "s", "e", "d">>
      [] t = "None" -> <<"N", "o", "n", "e">>
      [] t = "0" -> <<"0">>
      [] t = "5" -> <<"5">>
      [] t = "10" -> <<"1", "0">>
      [] t = "an" -> <<"a", "n">>
      [] t = "N" -> <<"N">>
      [] t = "clo" -> <<"c", "l", "o">>
      [] t = "zz" -> <<"z", "z">>

\* the code point of a character
Ord(ch) ==
    CASE ch = "0" -> 48 [] ch = "1" -> 49 [] ch = "5" -> 53
      [] ch = "A" -> 65 [] ch = "N" -> 78
      [] ch = "a" -> 97 [] ch = "b" -> 98 [] ch = "c" -> 99 [] ch = "d" -> 100
      [] ch = "e" -> 101 [] ch = "l" -> 108 [] ch = "n" -> 110 [] ch = "o" -> 111
      [] ch = "p" -> 112 [] ch = "s" -> 115 [] ch = "z" -> 122

\* str.lower(), and the case folding of icontains
LowerChar(ch) ==
    CASE ch = "A" -> "a"
      [] ch = "N" -> "n"
      [] OTHER -> ch

Lower(s) == [i \in 1..Len(s) |-> LowerChar(s[i])]

\* the comparison of two str values by code points
RECURSIVE LexLess(_, _)
LexLess(a, b) ==
    IF b = <<>> THEN FALSE
    ELSE IF a = <<>> THEN TRUE
    ELSE IF Ord(Head(a)) # Ord(Head(b)) THEN Ord(Head(a)) < Ord(Head(b))
    ELSE LexLess(Tail(a), Tail(b))

\* the lookup data__<column>__icontains=<text> on one row: the column's
\* value as text contains the text, letter case ignored; a missing key or a
\* null value matches nothing
IContains(hay, needle) ==
    \E i \in 1..(Len(hay) - Len(needle) + 1) :
        SubSeq(Lower(hay), i, i + Len(needle) - 1) = Lower(needle)

KeyIContains(data, column, text) ==
    /\ column \in DOMAIN data
    /\ data[column] # None
    /\ IContains(Chars(data[column]), Chars(text))

\* line 313, "and value": the truth value of a filters value
Truthy(value) ==
    IF value.list THEN value.items # <<>>
    ELSE IF value.items[1].num THEN value.items[1].text # "0"
    ELSE value.items[1].text # ""

\* lines 312-313: the filters keys that add a condition
AppliedFilters(available_columns, filters) ==
    {c \in DOMAIN filters : c \in Range(available_columns) /\ Truthy(filters[c])}

\* lines 314-323: the condition one filters key adds
FilterCondition(data, column, value) ==
    IF value.list
    THEN \E i \in 1..Len(value.items) : KeyIContains(data, column, value.items[i].text)
    ELSE KeyIContains(data, column, value.items[1].text)

\* faulty variant: the search conditions joined with AND
SearchCondition_And(data, search_query, available_columns) ==
    \/ search_query = ""
    \/ available_columns = <<>>
    \/ \A c \in Range(available_columns) : KeyIContains(data, c, search_query)

\* lines 304-309: the OR of icontains over the available columns; with no
\* available column the empty Q() filters nothing
SearchCondition(data, search_query, available_columns) ==
    \/ search_query = ""
    \/ available_columns = <<>>
    \/ \E c \in Range(available_columns) : KeyIContains(data, c, search_query)

\* lines 300-323: the conditions of the queryset on one row of the Upload
RowMatches(row, search_query, available_columns, filters) ==
    /\ SearchCondition(row.data, search_query, available_columns)
    /\ \A c \in AppliedFilters(available_columns, filters) :
           FilterCondition(row.data, c, filters[c])

\* lines 300-333: the queryset of the Upload's rows, searched, filtered and
\* ordered by id
Queryset(req, available_columns, filters) ==
    LET matched == SelectSeq(rows, LAMBDA r :
                       RowMatches(r, Strip(req.search), available_columns, filters.value))
    IN  IF req.sort_by = "id" /\ req.sort_order = "desc" THEN Reverse(matched)
        ELSE matched

\* str(queryset.query.where)
WhereClause(req, available_columns, filters) ==
    <<"upload", UploadId,
      IF Strip(req.search) = "" \/ available_columns = <<>> THEN <<>>
      ELSE <<available_columns, Strip(req.search)>>,
      [c \in AppliedFilters(available_columns, filters.value) |-> filters.value[c]]>>

CeilDiv(a, b) == (a + b - 1) \div b

\* queryset[start:end]
Slice(qs, start, end) == SubSeq(qs, start + 1, Min(end, Len(qs)))

\* faulty variant: a page beyond the last answered with the last page, as
\* Paginator.get_page does, for the [] of lines 52-53
PaginatorPage_LastPage(qs, per_page, number) ==
    LET count == Len(qs)
        num_pages == CeilDiv(Max(1, count), per_page)
        n == Min(number, num_pages)
    IN  Slice(qs, (n - 1) * per_page, Min(n * per_page, count))

\* django.core.paginator.Paginator(queryset, per_page).page(number), with
\* EmptyPage answered by [] (lines 46-53)
PaginatorPage(qs, per_page, number) ==
    LET count == Len(qs)
        num_pages == CeilDiv(Max(1, count), per_page)
    IN  IF number > num_pages THEN <<>>
        ELSE Slice(qs, (number - 1) * per_page, Min(number * per_page, count))

\* faulty variant: total_pages rounded down, math.floor for math.ceil
get_pagination_metadata_floor(page_number, page_size, total_count) ==
    LET total_pages == IF total_count > 0 THEN total_count \div page_size ELSE 0
    IN  [current_page |-> page_number,
         page_size |-> page_size,
         total_count |-> total_count,
         total_pages |-> total_pages,
         has_next |-> IF total_pages > 0 THEN page_number < total_pages ELSE FALSE,
         has_prev |-> page_number > 1,
         next_page |-> IF page_number < total_pages THEN page_number + 1 ELSE 0,
         prev_page |-> IF page_number > 1 THEN page_number - 1 ELSE 0,
         range_start |-> ((page_number - 1) * page_size) + 1,
         range_end |-> Min(page_number * page_size, total_count)]

\* CSVPagination._get_pagination_metadata
get_pagination_metadata(page_number, page_size, total_count) ==
    LET total_pages == IF total_count > 0 THEN CeilDiv(total_count, page_size) ELSE 0
    IN  [current_page |-> page_number,
         page_size |-> page_size,
         total_count |-> total_count,
         total_pages |-> total_pages,
         has_next |-> IF total_pages > 0 THEN page_number < total_pages ELSE FALSE,
         has_prev |-> page_number > 1,
         next_page |-> IF page_number < total_pages THEN page_number + 1 ELSE 0,
         prev_page |-> IF page_number > 1 THEN page_number - 1 ELSE 0,
         range_start |-> ((page_number - 1) * page_size) + 1,
         range_end |-> Min(page_number * page_size, total_count)]

-----------------------------------------------------------------------------
(* The view csv_upload_data *)

\* Response({"error": ...}, status=HTTP_400_BAD_REQUEST) of lines 231, 249, 262
ErrorResponse(req, error) ==
    [served |-> TRUE, req |-> req, http |-> http_bad_request, error |-> error,
     named_status |-> IF error = "not_ready" THEN upload.status ELSE "",
     env |-> NoEnvelope, reads |-> {}, writes |-> {}, rowQueries |-> 0]

\* line 295: [col.strip() for col in columns_filter.split(",")]
SplitColumns(t) ==
    CASE t = "name,bogus" -> <<"name", "bogus">>
      [] t = "qty, name" -> <<"qty", "name">>
      [] OTHER -> <<t>>
\* faulty variant: the requested names kept without the schema check
ColumnsToInclude_Unchecked(req, available_columns) ==
    IF Strip(req.columns) = "" THEN <<>>
    ELSE SplitColumns(Strip(req.columns))

ColumnsToInclude(req, available_columns) ==
    IF Strip(req.columns) = "" THEN <<>>
    ELSE SelectSeq(SplitColumns(Strip(req.columns)),
                   LAMBDA c : c \in Range(available_columns))

\* line 352: {col: row_data.get(col) for col in columns_to_include}
Project(data, columns_to_include) ==
    IF columns_to_include = <<>> THEN data
    ELSE [c \in Range(columns_to_include) |->
             IF c \in DOMAIN data THEN data[c] ELSE "None"]

\* the texts a sort key is taken from: str() of the cell values, and ""
CellTexts == {"", "0", "10", "5", "Ann", "bob", "closed", "None", "open"}

\* str(value).lower() as its rank among the keys in string order
LowerRank(v) ==
    Cardinality({Lower(Chars(w)) : w \in
                    {x \in CellTexts : LexLess(Lower(Chars(x)), Lower(Chars(v)))}})

SortKey(item, sort_by) ==
    LowerRank(IF sort_by \in DOMAIN item.data THEN item.data[sort_by] ELSE "")

\* list.sort(key=..., reverse=...): stable in both directions
RECURSIVE InsertSorted(_, _, _, _)
InsertSorted(sorted, item, sort_by, reverse) ==
    IF sorted = <<>> THEN <<item>>
    ELSE LET last == sorted[Len(sorted)]
             after == IF reverse
                      THEN SortKey(last, sort_by) >= SortKey(item, sort_by)
                      ELSE SortKey(last, sort_by) <= SortKey(item, sort_by)
         IN  IF after THEN Append(sorted, item)
             ELSE Append(InsertSorted(SubSeq(sorted, 1, Len(sorted) - 1),
                                      item, sort_by, reverse), last)

RECURSIVE StableSort(_, _, _)
StableSort(data, sort_by, reverse) ==
    IF data = <<>> THEN <<>>
    ELSE InsertSorted(StableSort(SubSeq(data, 1, Len(data) - 1), sort_by, reverse),
                      data[Len(data)], sort_by, reverse)

\* lines 364-373
InMemorySort(data, req, available_columns) ==
    IF req.sort_by \in Range(available_columns) /\ req.sort_by # "id"
    THEN StableSort(data, req.sort_by, req.sort_order = "desc")
    ELSE data

\* faulty variant: the cached envelope returned as it was stored, without
\* line 274
CachedResponse_Unmarked(req) ==
    LET key == EnvelopeKey(req)
    IN  [cache |-> cache,
         resp |-> [served |-> TRUE, req |-> req, http |-> http_ok, error |-> "",
                   named_status |-> "", env |-> cache[key],
                   reads |-> {key}, writes |-> {}, rowQueries |-> 0]]

\* lines 270-278: the envelope found under the cache key is returned with
\* performance.cached = True
CachedResponse(req) ==
    LET key == EnvelopeKey(req)
    IN  [cache |-> cache,
         resp |-> [served |-> TRUE, req |-> req, http |-> http_ok, error |-> "",
                   named_status |-> "",
                   env |-> [cache[key] EXCEPT !.performance.cached = TRUE],
                   reads |-> {key}, writes |-> {}, rowQueries |-> 0]]

\* lines 280-415: the envelope computed from the row store
ComputedResponse(req) ==
    LET nocache == req.nocache
        key == EnvelopeKey(req)
        filters == ParsedFilters(req.filters)
        \* lines 280-290
        colsHit == ColumnsKey \in DOMAIN cache
        firstHasData == rows # <<>> /\ DataKeys(rows[1].data) # <<>>
        available_columns ==
            IF colsHit THEN cache[ColumnsKey]
            ELSE IF firstHasData THEN DataKeys(rows[1].data) ELSE <<>>
        colsWritten == ~colsHit /\ firstHasData
        cache1 == IF colsWritten THEN CacheSet(cache, ColumnsKey, available_columns)
                  ELSE cache
        columns_to_include == ColumnsToInclude(req, available_columns)
        \* lines 300-333
        qs == Queryset(req, available_columns, filters)
        \* paginate_queryset
        page_number == get_page_number(req)
        page_size == IF IsStreaming(req) THEN get_streaming_page_size(req)
                     ELSE get_page_size(req)
        countKey == CountKey(req, WhereClause(req, available_columns, filters))
        countHit == countKey \in DOMAIN cache1
        total_count == IF countHit THEN cache1[countKey] ELSE Len(qs)
        cache2 == IF countHit THEN cache1 ELSE CacheSet(cache1, countKey, total_count)
        page_objs ==
            IF IsStreaming(req)
            THEN Slice(qs, (page_number - 1) * page_size,
                       (page_number - 1) * page_size + page_size)
            ELSE PaginatorPage(qs, page_size, page_number)
        \* lines 345-373
        processed_data ==
            InMemorySort(
                [i \in 1..Len(page_objs) |->
                    [row_id |-> page_objs[i].id,
                     data |-> Project(page_objs[i].data, columns_to_include)]],
                req, available_columns)
        \* get_paginated_response
        pagination == get_pagination_metadata(page_number, page_size, total_count)
        page_payload == [data |-> processed_data, pagination |-> pagination,
                         performance |-> [cached |-> FALSE]]
        pageKey == PageKey(req, page_number, page_size)
        cache3 == IF nocache THEN cache2 ELSE CacheSet(cache2, pageKey, page_payload)
        \* lines 384-409
        envelope ==
            [data |-> processed_data,
             pagination |-> pagination,
             performance |-> [cached |-> FALSE,
                              total_rows_processed |-> upload.processed_rows],
             upload_id |-> UploadId,
             upload_status |-> upload.status,
             metadata |-> [available_columns |-> available_columns,
                           search_query |-> Strip(req.search),
                           sort_by |-> req.sort_by,
                           sort_order |-> req.sort_order,
                           columns_filter |-> columns_to_include,
                           applied_filters |-> filters.dumps]]
        \* lines 411-413
        cache4 == IF nocache THEN cache3 ELSE CacheSet(cache3, key, envelope)
    IN  [cache |-> cache4,
         resp |-> [served |-> TRUE, req |-> req, http |-> http_ok, error |-> "",
                   named_status |-> "", env |-> envelope,
                   reads |-> (IF nocache THEN {} ELSE {key}) \cup {ColumnsKey, countKey},
                   writes |-> (IF colsWritten THEN {ColumnsKey} ELSE {})
                              \cup (IF countHit THEN {} ELSE {countKey})
                              \cup (IF nocache THEN {} ELSE {pageKey, key}),
                   rowQueries |-> (IF colsHit THEN 0 ELSE 1)
                                  + (IF countHit THEN 0 ELSE 1)
                                  + (IF IsStreaming(req) THEN 1 ELSE 2)]]

\* line 227, get_object_or_404: no Upload with the id
NotFoundResponse(req) == [ErrorResponse(req, "not_found") EXCEPT !.http = http_not_found]

\* faulty variant: the view without its status check of lines 229-236
NotReady_Unchecked == FALSE

\* lines 229-230: upload.status != "completed"
NotReady == upload.status # "completed"

\* faulty variant: the envelope looked up in the cache whatever nocache says
csv_upload_data_CacheFirst(req) ==
    IF ~upload.exists
    THEN [cache |-> cache, resp |-> NotFoundResponse(req)]
    ELSE IF NotReady
    THEN [cache |-> cache, resp |-> ErrorResponse(req, "not_ready")]
    ELSE IF ~ParsesInt(req.page) \/ ~ParsesInt(req.page_size)
    THEN [cache |-> cache, resp |-> ErrorResponse(req, "invalid_parameters")]
    ELSE IF FiltersRejected(req.filters)
    THEN [cache |-> cache, resp |-> ErrorResponse(req, "invalid_filters")]
    ELSE IF EnvelopeKey(req) \in DOMAIN cache
    THEN CachedResponse(req)
    ELSE ComputedResponse(req)

\* the whole view, lines 219-415: the response and the cache it leaves
csv_upload_data(req) ==
    IF ~upload.exists
    THEN [cache |-> cache, resp |-> NotFoundResponse(req)]
    ELSE IF NotReady
    THEN [cache |-> cache, resp |-> ErrorResponse(req, "not_ready")]
    ELSE IF ~ParsesInt(req.page) \/ ~ParsesInt(req.page_size)
    THEN [cache |-> cache, resp |-> ErrorResponse(req, "invalid_parameters")]
    ELSE IF FiltersRejected(req.filters)
    THEN [cache |-> cache, resp |-> ErrorResponse(req, "invalid_filters")]
    ELSE IF ~req.nocache /\ EnvelopeKey(req) \in DOMAIN cache
    THEN CachedResponse(req)
    ELSE ComputedResponse(req)

\* one GET .../uploads/<id>/data/ request
CsvUploadData ==
    /\ nQueries < MaxQueries
    /\ \E req \in Requests :
          LET out == csv_upload_data(req)
          IN  /\ cache' = out.cache
              /\ resp' = out.resp
    /\ nQueries' = nQueries + 1
    /\ UNCHANGED <<rows, hiProcessed, walk, peer>>
    /\ UNCHANGED ingestVars

\* the Upload as a finished or unfinished ingestion of n rows left it
UploadIn(status, n) ==
    [NewUpload EXCEPT
        !.status = status,
        !.total_rows = n,
        !.processed_rows = n,
        !.task_id = TaskId,
        !.started_at = "set",
        !.completed_at = IF status = "completed" THEN "set" ELSE "null",
        !.errors = IF status = "failed" THEN <<"error at emit">> ELSE <<>>]

InitQuery ==
    /\ \E n \in RowCounts, status \in {"pending", "processing", "completed", "failed"} :
          /\ upload = IF status = "pending" THEN NewUpload ELSE UploadIn(status, n)
          /\ rows = IF status = "pending" THEN <<>> ELSE Dataset(n)
          /\ csvDataCount = Len(rows)
          /\ file = StoredFile(n)
          /\ task = [NewTask EXCEPT
                        !.pc = CASE status = "pending" -> "queued"
                                 [] status = "processing" -> "emit"
                                 [] status = "completed" -> "success"
                                 [] OTHER -> "queued",
                        !.retries = IF status = "failed" THEN 1 ELSE 0,
                        !.eta = IF status = "failed" THEN countdown ELSE 0]
          /\ hiProcessed = IF status = "pending" THEN 0 ELSE n
    /\ cache = << >>
    /\ progressEvents = <<>>
    /\ emailQueue = <<>>
    /\ faults = 0
    /\ resp = NoResponse
    /\ nQueries = 0
    /\ walk = NoWalk
    /\ peer = NoPeer

NextQuery == CsvUploadData

SpecQuery == InitQuery /\ [][NextQuery]_vars

-----------------------------------------------------------------------------
(* The view on a completed Upload, by the kind of request *)

\* one GET .../uploads/<id>/data/ request drawn from reqs, at most max of them
Serve(reqs, max) ==
    /\ nQueries < max
    /\ \E req \in reqs :
          LET out == csv_upload_data(req)
          IN  /\ cache' = out.cache
              /\ resp' = out.resp
    /\ nQueries' = nQueries + 1
    /\ UNCHANGED <<rows, hiProcessed, walk, peer>>
    /\ UNCHANGED ingestVars

\* a completed Upload whose ingestion stored the rows rs, and a cold cache
InitCompleted(rs) ==
    /\ upload = UploadIn("completed", Len(rs))
    /\ rows = rs
    /\ csvDataCount = Len(rs)
    /\ file = StoredFile(Len(rs))
    /\ task = [NewTask EXCEPT !.pc = "success"]
    /\ hiProcessed = Len(rs)
    /\ cache = << >>
    /\ progressEvents = <<>>
    /\ emailQueue = <<>>
    /\ faults = 0
    /\ resp = NoResponse
    /\ nQueries = 0
    /\ walk = NoWalk
    /\ peer = NoPeer

\* SpecOffset: pages of the real page sizes over Uploads of up to 250 rows,
\* requested with each value of the strategy selector
PagedRowCounts == {0, 1, 100, 101, 250}

PagedRequests ==
    {r \in [page : {Absent, IntParam(2), IntParam(3)},
            page_size : {Absent, IntParam(50)},
            sort_by : {"id"}, sort_order : {"asc"}, search : {""}, columns : {""},
            filters : {""}, nocache : BOOLEAN,
            pagination : {"", "streaming", "cursor"},
            cursor : {Absent, IntParam(2)}] :
        r.cursor # Absent <=> r.pagination = "cursor"}

CsvUploadDataPaged == Serve(PagedRequests, MaxQueries)

InitOffset == \E n \in PagedRowCounts : InitCompleted(Dataset(n))

NextOffset == CsvUploadDataPaged

SpecOffset == InitOffset /\ [][NextOffset]_vars

-----------------------------------------------------------------------------
(* SpecLive: queries on a completed Upload whose rows are deleted meanwhile *)

\* rows deleted through the admin site in one behaviour
MaxDeletes == 1

LiveRequests ==
    [page : {Absent, IntParam(2)}, page_size : {IntParam(2)},
     sort_by : {"id"}, sort_order : {"asc", "desc"}, search : {""}, columns : {""},
     filters : {""}, nocache : BOOLEAN, pagination : {"", "streaming"},
     cursor : {Absent}]

CsvUploadDataLive == Serve(LiveRequests, MaxQueries)

\* CSVDataAdmin: the admin site's delete of one CSVData row
AdminDeleteRow ==
    /\ upload.total_rows - Len(rows) < MaxDeletes
    /\ \E i \in 1..Len(rows) :
          rows' = SubSeq(rows, 1, i - 1) \o SubSeq(rows, i + 1, Len(rows))
    /\ csvDataCount' = csvDataCount - 1
    /\ UNCHANGED <<file, upload, task, cache, progressEvents, emailQueue, faults,
                   hiProcessed, resp, nQueries, walk, peer>>

LiveRowCounts == {3, 4}

InitLive == \E n \in LiveRowCounts : InitCompleted(Dataset(n))

NextLive == CsvUploadDataLive \/ AdminDeleteRow

SpecLive == InitLive /\ [][NextLive]_vars

-----------------------------------------------------------------------------
(* SpecFilter: search, filters, sort and projection over typed rows *)

\* requests served in one behaviour of SpecFilter
MaxFilterQueries == 1

\* the rows of a file with the columns name, status and qty; the status
\* cell of the third line is empty
FilterRowData(i) ==
    CASE i = 1 -> [name |-> "Ann", status |-> "open", qty |-> "0"]
      [] i = 2 -> [name |-> "bob", status |-> "closed", qty |-> "10"]
      [] i = 3 -> [name |-> "Ann", status |-> None, qty |-> "5"]
      [] i = 4 -> [name |-> "bob", status |-> "open", qty |-> "5"]

FilterDataset(n) == [i \in 1..n |-> [id |-> i, data |-> FilterRowData(i)]]

FilterRowCounts == {0, 3, 4}

FilterObjectTexts ==
    {"", "{\"status\": \"open\"}", "{\"status\": \"clo\"}",
     "{\"status\": [\"open\", \"clo\"]}", "{\"qty\": 0}", "{\"qty\": [0]}",
     "{\"status\": \"open\", \"name\": \"an\"}", "{\"name\": \"an\"}",
     "{\"name\": \"an\", \"bogus\": \"zz\"}"}

\* requests that vary what is matched
MatchRequests ==
    [page : {Absent}, page_size : {Absent}, sort_by : {"id"}, sort_order : {"asc"},
     search : {"", " an ", "N", "zz"}, columns : {""}, filters : FilterObjectTexts,
     nocache : {FALSE}, pagination : {""}, cursor : {Absent}]

\* requests that vary how the page is sorted and projected
ShapeRequests ==
    {r \in [page : {Absent, IntParam(2)}, page_size : {Absent, IntParam(2)},
            sort_by : {"id", "name", "status", "bogus"}, sort_order : {"asc", "desc"},
            search : {""},
            columns : {"", "name", "bogus", "name,bogus", "qty, name"},
            filters : {""}, nocache : {FALSE}, pagination : {""}, cursor : {Absent}] :
        r.page = Absent <=> r.page_size = Absent}

CsvUploadDataFiltered == Serve(MatchRequests \cup ShapeRequests, MaxFilterQueries)

InitFilter == \E n \in FilterRowCounts : InitCompleted(FilterDataset(n))

NextFilter == CsvUploadDataFiltered

SpecFilter == InitFilter /\ [][NextFilter]_vars

-----------------------------------------------------------------------------
(* SpecInvalidate: queries on a completed Upload, and its deletion with the
   cache backend in any state *)

http_internal_server_error == 500

InvalidateRequests ==
    [page : {Absent}, page_size : {Absent, IntParam(2)}, sort_by : {"id"},
     sort_order : {"asc"}, search : {""}, columns : {""}, filters : {""},
     nocache : BOOLEAN, pagination : {"", "streaming"}, cursor : {Absent}]

CsvUploadDataWarm == Serve(InvalidateRequests, MaxQueries)

\* the view while the cache store cannot be reached: the first cache call
\* (get_cached_value at line 272, or at line 282 with nocache) raises, no
\* statement of the view catches it, and the request ends as a server error
csv_upload_data_CacheDown(req) ==
    IF ~upload.exists
    THEN NotFoundResponse(req)
    ELSE IF NotReady
    THEN ErrorResponse(req, "not_ready")
    ELSE IF ~ParsesInt(req.page) \/ ~ParsesInt(req.page_size)
    THEN ErrorResponse(req, "invalid_parameters")
    ELSE IF FiltersRejected(req.filters)
    THEN ErrorResponse(req, "invalid_filters")
    ELSE [ErrorResponse(req, "cache_unavailable") EXCEPT !.http = http_internal_server_error]

CsvUploadDataCacheDown ==
    /\ nQueries < MaxQueries
    /\ \E req \in InvalidateRequests : resp' = csv_upload_data_CacheDown(req)
    /\ nQueries' = nQueries + 1
    /\ UNCHANGED <<cache, rows, hiProcessed, walk, peer>>
    /\ UNCHANGED ingestVars

CsvUploadDeleteAnyBackend == DeleteUpload(Backends) /\ UNCHANGED hiProcessed

InvalidateRowCounts == {0, 3}

\* a completed Upload whose progress entry is still in the cache
InitInvalidate ==
    /\ \E n \in InvalidateRowCounts :
          /\ upload = UploadIn("completed", n)
          /\ rows = Dataset(n)
          /\ csvDataCount = n
          /\ file = StoredFile(n)
          /\ hiProcessed = n
          /\ cache = IF n = 0 THEN << >>
                     ELSE CacheSet(<< >>, ProgressKey, Progress(n, n))
    /\ task = [NewTask EXCEPT !.pc = "success"]
    /\ progressEvents = <<>>
    /\ emailQueue = <<>>
    /\ faults = 0
    /\ resp = NoResponse
    /\ nQueries = 0
    /\ walk = NoWalk
    /\ peer = NoPeer

NextInvalidate ==
    \/ CsvUploadDataWarm
    \/ CsvUploadDataCacheDown
    \/ CsvUploadDeleteAnyBackend

SpecInvalidate == InitInvalidate /\ [][NextInvalidate]_vars

-----------------------------------------------------------------------------
(* SpecPair: queries on two completed Uploads of one user, which share the
   cache store and the table csv_data.  upload and rows are the Upload the
   client's requests name in their path, peer is the other one. *)

\* requests served in one behaviour of SpecPair
MaxPairQueries == 3

PairRequests ==
    [page : {Absent}, page_size : {Absent, IntParam(2)}, sort_by : {"id"},
     sort_order : {"asc"}, search : {"", "bob"}, columns : {""}, filters : {""},
     nocache : BOOLEAN, pagination : {"", "streaming"}, cursor : {Absent}]

CsvUploadDataPair == Serve(PairRequests, MaxPairQueries)

\* the rows of the second Upload: ids after those of the first one (the
\* BigAutoField of csv_data), and a third column
PeerDataset(first, n) == [i \in 1..n |-> [id |-> first + i, data |-> FilterRowData(i)]]

PairRowCounts == {3}
PeerRowCounts == {0, 4}

\* the client turns to the other Upload: upload_id of the path changes
AddressPeer ==
    /\ upload' = peer.upload
    /\ rows' = peer.rows
    /\ peer' = [upload |-> upload, rows |-> rows]
    /\ csvDataCount' = Len(peer.rows)
    /\ file' = StoredFile(Len(peer.rows))
    /\ hiProcessed' = Len(peer.rows)
    /\ UNCHANGED <<task, cache, progressEvents, emailQueue, faults, resp, nQueries, walk>>

InitPair ==
    /\ \E n \in PairRowCounts, m \in PeerRowCounts :
          /\ upload = UploadIn("completed", n)
          /\ rows = Dataset(n)
          /\ csvDataCount = n
          /\ file = StoredFile(n)
          /\ hiProcessed = n
          /\ peer = [upload |-> [UploadIn("completed", m) EXCEPT !.id = "u2"],
                     rows |-> PeerDataset(n, m)]
    /\ task = [NewTask EXCEPT !.pc = "success"]
    /\ cache = << >>
    /\ progressEvents = <<>>
    /\ emailQueue = <<>>
    /\ faults = 0
    /\ resp = NoResponse
    /\ nQueries = 0
    /\ walk = NoWalk

NextPair == CsvUploadDataPair \/ AddressPeer

SpecPair == InitPair /\ [][NextPair]_vars

-----------------------------------------------------------------------------
(* CSVCursorPagination, called by a client that follows next_cursor *)

\* CSVCursorPagination.page_size
cursor_page_size == 100

\* cursor calls of one walk, and bulk inserts between them
MaxCalls == 5
MaxInserts == 2

\* decode_cursor: int(cursor) for a numeric parameter, None otherwise
decode_cursor(param) == IF param.kind = "int" THEN Some(param.val) ELSE NoneValue

\* CSVCursorPagination.paginate_queryset.  Line 279 stores an id-ordered
\* copy in self.queryset; the rows are filtered and sliced from the
\* queryset argument, in the order the caller gave it.
cursor_paginate_queryset(queryset, param) ==
    LET cursor == decode_cursor(param)
        filtered == IF ~cursor.none /\ cursor.val # 0
                    THEN SelectSeq(queryset, LAMBDA r : r.id > cursor.val)
                    ELSE queryset
        page == SubSeq(filtered, 1, Min(Len(filtered), cursor_page_size + 1))
        has_next == Len(page) > cursor_page_size
    IN  [page |-> IF has_next THEN SubSeq(page, 1, Len(page) - 1) ELSE page,
         has_next |-> has_next,
         has_previous |-> ~cursor.none]

\* CSVCursorPagination.get_paginated_response
cursor_get_paginated_response(data, has_next, has_previous) ==
    [data |-> data,
     pagination |->
        [next_cursor |-> IF data # <<>> /\ has_next
                         THEN Some(data[Len(data)].row_id) ELSE NoneValue,
         previous_cursor |-> IF data # <<>> /\ has_previous
                             THEN Some(data[1].row_id - cursor_page_size - 1)
                             ELSE NoneValue,
         has_next |-> has_next,
         has_previous |-> has_previous,
         page_size |-> cursor_page_size]]

\* the queryset the view builds at lines 326-333: ordered by id, or by -id
\* for sort_by=id&sort_order=desc
OrderedRows(ordering) == IF ordering = "-id" THEN Reverse(rows) ELSE rows

\* one cursor call: the first without a cursor, each later one with the
\* next_cursor of the response before it
CursorCall ==
    /\ walk.calls < MaxCalls
    /\ walk.calls = 0 \/ walk.has_next
    /\ \E out \in {cursor_paginate_queryset(OrderedRows(walk.ordering), walk.cursor)} :
       \E ids \in {SubSeq([i \in 1..Len(out.page) |-> out.page[i].id],
                          1, Len(out.page))} :
          LET data == [i \in 1..Len(ids) |-> [row_id |-> ids[i]]]
              r == cursor_get_paginated_response(data, out.has_next, out.has_previous)
          IN  walk' = [walk EXCEPT
                          !.calls = @ + 1,
                          !.first_count = IF walk.calls = 0 THEN Len(rows) ELSE @,
                          !.page = ids,
                          !.seen = @ \o ids,
                          !.has_next = r.pagination.has_next,
                          !.has_previous = r.pagination.has_previous,
                          !.next_cursor = r.pagination.next_cursor,
                          !.previous_cursor = r.pagination.previous_cursor,
                          !.cursor = IF r.pagination.next_cursor.none THEN @
                                     ELSE IntParam(r.pagination.next_cursor.val)]
    /\ UNCHANGED <<rows, resp, nQueries, cache, hiProcessed, peer>>
    /\ UNCHANGED ingestVars

InsertSizes == {1, 100}

\* process_chunk's bulk_create between two cursor calls: rows with the next
\* identities are stored for the Upload
InsertRows ==
    /\ walk.inserts < MaxInserts
    /\ \E k \in InsertSizes :
          /\ rows' = rows \o [i \in 1..k |->
                                 [id |-> Len(rows) + i, data |-> RowData(Len(rows) + i)]]
          /\ csvDataCount' = csvDataCount + k
    /\ walk' = [walk EXCEPT !.inserts = @ + 1]
    /\ task' = [task EXCEPT !.processed_rows = @ + (csvDataCount' - csvDataCount),
                            !.chunk = @ + 1]
    /\ UNCHANGED <<file, upload, cache, progressEvents, emailQueue, faults,
                   hiProcessed, resp, nQueries, peer>>

CursorRowCounts == {0, 1, 100, 101, 250}

\* an Upload whose ingestion has stored M rows so far, and a client about
\* to page through them with either queryset ordering
InitCursor ==
    /\ \E M \in CursorRowCounts, ordering \in {"id", "-id"} :
          /\ rows = Dataset(M)
          /\ walk = [NoWalk EXCEPT !.ordering = ordering]
          /\ peer = NoPeer
          /\ csvDataCount = M
          /\ file = StoredFile(M + MaxInserts * 100)
          /\ upload = [UploadIn("processing", M) EXCEPT
                           !.total_rows = M + MaxInserts * 100]
          /\ task = [NewTask EXCEPT !.pc = "loop", !.obj = upload,
                                    !.total_rows = M + MaxInserts * 100,
                                    !.processed_rows = M]
          /\ hiProcessed = M
    /\ cache = << >>
    /\ progressEvents = <<>>
    /\ emailQueue = <<>>
    /\ faults = 0
    /\ resp = NoResponse
    /\ nQueries = 0

NextCursor == CursorCall \/ InsertRows

SpecCursor == InitCursor /\ [][NextCursor]_vars

\* one cursor call with the previous_cursor of the response before it
CursorBack ==
    /\ walk.calls < MaxCalls
    /\ walk.calls > 0
    /\ ~walk.previous_cursor.none
    /\ \E out \in {cursor_paginate_queryset(OrderedRows(walk.ordering),
                                            IntParam(walk.previous_cursor.val))} :
       \E ids \in {SubSeq([i \in 1..Len(out.page) |-> out.page[i].id],
                          1, Len(out.page))} :
          LET data == [i \in 1..Len(ids) |-> [row_id |-> ids[i]]]
              r == cursor_get_paginated_response(data, out.has_next, out.has_previous)
          IN  walk' = [walk EXCEPT
                          !.calls = @ + 1,
                          !.backs = @ + 1,
                          !.page = ids,
                          !.seen = @ \o ids,
                          !.has_next = r.pagination.has_next,
                          !.has_previous = r.pagination.has_previous,
                          !.next_cursor = r.pagination.next_cursor,
                          !.previous_cursor = r.pagination.previous_cursor,
                          !.cursor = IF r.pagination.next_cursor.none THEN @
                                     ELSE IntParam(r.pagination.next_cursor.val)]
    /\ UNCHANGED <<rows, resp, nQueries, cache, hiProcessed, peer>>
    /\ UNCHANGED ingestVars

\* rows whose identities are not consecutive: the BigAutoField of csv_data
\* numbers the rows of all Uploads, and rows can be deleted; here every
\* step-th identity from first on
SpacedDataset(n, first, step) ==
    [i \in 1..n |-> [id |-> first + (i - 1) * step, data |-> RowData(i)]]

CursorRowSets ==
    {Dataset(101), Dataset(250), SpacedDataset(250, 1001, 1), SpacedDataset(250, 2, 2),
     SpacedDataset(201, 7, 3)}

\* the cursor parameter of the client's first call
FirstCursors == {Absent, IntParam(50), IntParam(1100)}

\* a completed Upload and a client about to page through its rows in
\* identity order, forward and back
InitCursorBack ==
    /\ \E rs \in CursorRowSets, first \in FirstCursors :
          /\ upload = UploadIn("completed", Len(rs))
          /\ rows = rs
          /\ csvDataCount = Len(rs)
          /\ file = StoredFile(Len(rs))
          /\ hiProcessed = Len(rs)
          /\ walk = [NoWalk EXCEPT !.cursor = first]
    /\ task = [NewTask EXCEPT !.pc = "success"]
    /\ cache = << >>
    /\ progressEvents = <<>>
    /\ emailQueue = <<>>
    /\ faults = 0
    /\ resp = NoResponse
    /\ nQueries = 0
    /\ peer = NoPeer

NextCursorBack == CursorCall \/ CursorBack

SpecCursorBack == InitCursorBack /\ [][NextCursorBack]_vars

-----------------------------------------------------------------------------
(* Header normalization: _to_snake_case and the collision loop of lines 59-72.
   A name is the sequence of its characters. *)

\* headers of one file
MaxHeaders == 3

HeaderAlphabet == {"a", "A", "1", "_", " "}

IsUpper(ch) == ch \in {"A", "U", "I", "D", "N"}
IsLowerOrDigit(ch) == ch \in {"a", "d", "e", "m", "n", "s", "r", "1", "2"}
IsAlnum(ch) == IsUpper(ch) \/ IsLowerOrDigit(ch)
IsDigit(ch) == ch \in {"1", "2"}

\* str.lower() on the letters of the headers
HeaderLowerChar(ch) ==
    CASE ch = "A" -> "a" [] ch = "U" -> "u" [] ch = "I" -> "i" [] ch = "D" -> "d"
      [] ch = "N" -> "n" [] OTHER -> ch

\* str.strip(chars): leading and trailing characters of the class removed
RECURSIVE LStrip(_, _)
LStrip(s, chars) ==
    IF s # <<>> /\ Head(s) \in chars THEN LStrip(Tail(s), chars) ELSE s

RECURSIVE RStrip(_, _)
RStrip(s, chars) ==
    IF s # <<>> /\ s[Len(s)] \in chars
    THEN RStrip(SubSeq(s, 1, Len(s) - 1), chars) ELSE s

StripChars(s, chars) == RStrip(LStrip(s, chars), chars)

Whitespace == {" "}

\* the rest of a text after its leading characters outside [0-9a-zA-Z]
RECURSIVE SkipNonAlnum(_)
SkipNonAlnum(s) ==
    IF s # <<>> /\ ~IsAlnum(Head(s)) THEN SkipNonAlnum(Tail(s)) ELSE s

\* line 21: re.sub(r"([a-z0-9])([A-Z])", r"\1_\2", s), matches taken from
\* the left without overlap
RECURSIVE CamelBoundary(_)
CamelBoundary(s) ==
    IF Len(s) < 2 THEN s
    ELSE IF IsLowerOrDigit(s[1]) /\ IsUpper(s[2])
    THEN <<s[1], "_", s[2]>> \o CamelBoundary(SubSeq(s, 3, Len(s)))
    ELSE <<s[1]>> \o CamelBoundary(Tail(s))

\* line 23: re.sub(r"[^0-9a-zA-Z]+", "_", s): each run becomes one underscore
RECURSIVE NonAlnumRuns(_)
NonAlnumRuns(s) ==
    IF s = <<>> THEN <<>>
    ELSE IF IsAlnum(Head(s)) THEN <<Head(s)>> \o NonAlnumRuns(Tail(s))
    ELSE <<"_">> \o NonAlnumRuns(SkipNonAlnum(s))

Col == <<"c", "o", "l">>

\* faulty variant: _to_snake_case without the col prefix of lines 26-27
to_snake_case_NoPrefix(name) ==
    LET s1 == StripChars(name, Whitespace)
        s2 == CamelBoundary(s1)
        s3 == NonAlnumRuns(s2)
        s4 == [i \in 1..Len(s3) |-> HeaderLowerChar(s3[i])]
    IN  StripChars(s4, {"_"})

\* _to_snake_case (lines 16-28)
to_snake_case(name) ==
    LET s1 == StripChars(name, Whitespace)
        s2 == CamelBoundary(s1)
        s3 == NonAlnumRuns(s2)
        s4 == [i \in 1..Len(s3) |-> HeaderLowerChar(s3[i])]
        s5 == StripChars(s4, {"_"})
    IN  IF s5 = <<>> THEN Col
        ELSE IF IsDigit(s5[1]) THEN Col \o <<"_">> \o s5
        ELSE s5

\* str(n) of a suffix
DigitChar(d) ==
    CASE d = 0 -> "0" [] d = 1 -> "1" [] d = 2 -> "2" [] d = 3 -> "3" [] d = 4 -> "4"
      [] d = 5 -> "5" [] d = 6 -> "6" [] d = 7 -> "7" [] d = 8 -> "8" [] d = 9 -> "9"

RECURSIVE Str(_)
Str(n) == IF n < 10 THEN <<DigitChar(n)>> ELSE Str(n \div 10) \o <<DigitChar(n % 10)>>

\* lines 65-69: the first of base, base_1, base_2, ... that is not in seen
RECURSIVE Candidate(_, _, _, _)
Candidate(base, candidate, suffix, seen) ==
    IF candidate \notin seen THEN candidate
    ELSE Candidate(base, base \o <<"_">> \o Str(suffix), suffix + 1, seen)

\* lines 60-71: new_cols for the columns of a chunk
RECURSIVE NewCols(_)
NewCols(orig_cols) ==
    IF orig_cols = <<>> THEN <<>>
    ELSE LET before == NewCols(SubSeq(orig_cols, 1, Len(orig_cols) - 1))
             base == to_snake_case(orig_cols[Len(orig_cols)])
         IN  Append(before, Candidate(base, base, 1, Range(before)))

\* the headers: the empty text, the one-character texts, texts with a
\* case boundary, a leading digit, leading, trailing and repeated
\* separators, and "User ID", "2nd Name", "A.1" (the name pandas gives a
\* second column "A") and "a_1"
UserID == <<"U", "s", "e", "r", " ", "I", "D">>
SecondName == <<"2", "n", "d", " ", "N", "a", "m", "e">>

Headers ==
    {<<>>} \cup {<<ch>> : ch \in HeaderAlphabet}
    \cup {<<"a", "A">>, <<"1", "A">>, <<"a", " ">>, <<"_", "a", "_">>,
          <<"a", ".", " ", "1">>, <<"A", ".", "1">>, <<"a", "_", "1">>,
          UserID, SecondName}

RECURSIVE HeaderLists(_)
HeaderLists(n) ==
    IF n = 0 THEN {<<>>}
    ELSE HeaderLists(n - 1) \cup {Append(l, h) : l \in HeaderLists(n - 1), h \in Headers}

\* the task at the loop of line 58 over a file of two chunks with the
\* header hs; first_cols and new_cols: the columns given to the first and
\* to the latest chunk
InitNormalize ==
    /\ \E hs \in HeaderLists(MaxHeaders) :
          file = [empty |-> FALSE, rows |-> chunk_size + 1, stored |-> TRUE, header |-> hs]
    /\ upload = [UploadIn("processing", 0) EXCEPT !.total_rows = chunk_size + 1]
    /\ task = [pc |-> "loop", retries |-> 0, eta |-> 0, obj |-> upload,
               total_rows |-> chunk_size + 1, processed_rows |-> 0, chunk |-> 0,
               first_cols |-> <<>>, new_cols |-> <<>>]
    /\ csvDataCount = 0
    /\ cache = << >>
    /\ progressEvents = <<>>
    /\ emailQueue = <<>>
    /\ faults = 0
    /\ hiProcessed = 0
    /\ rows = <<>>
    /\ resp = NoResponse
    /\ nQueries = 0
    /\ walk = NoWalk
    /\ peer = NoPeer

\* lines 58-72 for the next chunk: orig_cols = list(chunk.columns), and
\* chunk.columns = new_cols
NormalizeChunk ==
    /\ task.pc = "loop"
    /\ task.chunk < Len(Chunks)
    /\ \E new_cols \in {NewCols(file.header)} :
          task' = [task EXCEPT !.chunk = @ + 1,
                               !.new_cols = new_cols,
                               !.first_cols = IF task.chunk = 0 THEN new_cols ELSE @]
    /\ UNCHANGED <<file, upload, csvDataCount, cache, progressEvents, emailQueue,
                   faults, hiProcessed>>
    /\ UNCHANGED queryVars

NextNormalize == NormalizeChunk

SpecNormalize == InitNormalize /\ [][NextNormalize]_vars

-----------------------------------------------------------------------------
(* Properties of the ingestion pipeline, checked under SpecIngest *)

\* C1: whenever the Upload is completed, processed_rows = total_rows = N, the
\* number of data rows of the file, and exactly N CSVData rows reference it.
C1_CompletedCountsAreN ==
    upload.status = "completed" =>
        /\ upload.processed_rows = file.rows
        /\ upload.total_rows = file.rows
        /\ csvDataCount = file.rows

\* C2 (as claimed): no step takes status from completed or failed back to
\* processing or pending.
C2_NeverBackward ==
    [][upload.status \in {"completed", "failed"}
          => upload'.status \notin {"processing", "pending"}]_vars

\* C2 (amended): status never returns to pending and never leaves completed;
\* pending moves to processing, or to failed when the first statements of the
\* task raise; processing moves to completed or failed; failed is left only
\* for processing, and only by the start of a retry execution.
C2_StatusTransitions ==
    [][/\ upload'.status = "pending" => upload.status = "pending"
       /\ upload.status = "completed" => upload'.status = "completed"
       /\ upload.status = "pending" => upload'.status \in {"pending", "processing", "failed"}
       /\ upload.status = "processing" =>
              upload'.status \in {"processing", "completed", "failed"}
       /\ (upload.status = "failed" /\ upload'.status # "failed") =>
              /\ upload'.status = "processing"
              /\ task.pc = "queued"
              /\ task.retries >= 1
              /\ task'.retries = task.retries]_vars

C2_RetryReentersProcessing ==
    /\ upload.status = "processing"
    /\ task.retries >= 1
    /\ Len(upload.errors) >= 1

\* C3: the ingestion is retried at most 3 times, each retry queued with a
\* countdown of 10 seconds, and once the retries are used up the Upload's
\* status is failed (nothing runs after that, so it stays so).
C3_ExhaustedStaysFailed ==
    /\ task.retries <= max_retries
    /\ (task.pc = "queued" /\ task.retries > 0) => task.eta = countdown
    /\ task.pc = "gave_up" => upload.status = "failed"

\* C4: within one execution of process_csv_file no step lowers the persisted
\* processed_rows.
C4_NoDecreaseWithinRun ==
    [][Running => upload'.processed_rows >= upload.processed_rows]_vars

\* C5: whenever the Upload is processing, its persisted processed_rows is not
\* below any value persisted earlier while it was processing.
C5_MonotoneWhileProcessing ==
    upload.status = "processing" => upload.processed_rows >= hiProcessed

\* C6: processed_rows <= total_rows, the cached progress is within [0, 100],
\* and right after the cache write it is processed_rows / total_rows * 100 of
\* the persisted counters, or 0 when total_rows is 0.
C6_ProgressBounded ==
    /\ upload.processed_rows <= upload.total_rows
    /\ ProgressKey \in DOMAIN cache =>
          /\ cache[ProgressKey].den > 0
          /\ 0 <= cache[ProgressKey].num
          /\ cache[ProgressKey].num <= 100 * cache[ProgressKey].den
    /\ (task.pc = "emit" /\ ProgressKey \in DOMAIN cache) =>
          IF upload.total_rows = 0
          THEN cache[ProgressKey].num = 0
          ELSE /\ cache[ProgressKey].num = upload.processed_rows * 100
               /\ cache[ProgressKey].den = upload.total_rows

C6_PartialProgressCached ==
    /\ task.pc = "emit"
    /\ ProgressKey \in DOMAIN cache
    /\ 0 < upload.processed_rows
    /\ upload.processed_rows < upload.total_rows
    /\ cache[ProgressKey].num = upload.processed_rows * 100
    /\ cache[ProgressKey].den = upload.total_rows

\* C7: with no environment fault, a file without data rows (zero bytes, or a
\* header row only) gets total_rows = 0 and status completed, with no
\* progress event, no error and no retry.
C7_NoDataRowsCompletes ==
    (file.rows = 0 /\ faults = 0) =>
        /\ upload.errors = <<>>
        /\ upload.status # "failed"
        /\ task.retries = 0
        /\ task.pc # "gave_up"
        /\ progressEvents = <<>>
        /\ upload.total_rows = 0
        /\ task.pc \in {"enqueue_email", "success"} => upload.status = "completed"

-----------------------------------------------------------------------------
(* Properties of the view csv_upload_data, checked under SpecQuery *)

NotJsonObject(raw) ==
    /\ raw # ""
    /\ ~(JsonLoads(raw).ok /\ JsonLoads(raw).type = "object")

NoCacheOrRowAccess ==
    /\ resp.reads = {}
    /\ resp.writes = {}
    /\ resp.rowQueries = 0

\* C9 (as claimed): a request whose filters parameter is not valid JSON, or
\* is JSON that is no object, is rejected with a bad request before any
\* cache read or write and before any row query.
C9_InvalidFiltersRejected ==
    (resp.served /\ NotJsonObject(resp.req.filters)) =>
        /\ resp.http = http_bad_request
        /\ NoCacheOrRowAccess

\* C9 (amended): the same for a filters parameter that is not blank after
\* trimming; on a completed Upload with numeric page parameters the error is
\* the invalid-filters one.
C9_NonBlankInvalidFiltersRejected ==
    (resp.served /\ NotJsonObject(resp.req.filters) /\ Strip(resp.req.filters) # "") =>
        /\ resp.http = http_bad_request
        /\ resp.env.data = <<>>
        /\ NoCacheOrRowAccess
        /\ (upload.status = "completed" /\ ParsesInt(resp.req.page)
               /\ ParsesInt(resp.req.page_size)) => resp.error = "invalid_filters"

C9_MalformedFiltersOnWarmCache ==
    /\ resp.served
    /\ upload.status = "completed"
    /\ resp.req.filters = "{bad"
    /\ resp.error = "invalid_filters"
    /\ DOMAIN cache # {}

\* the page size and page the claim gives for a request
ClaimedPageSize(req) ==
    IF req.pagination = "streaming"
    THEN Min(Max(100, IntOr(req.page_size, 1000)), 5000)
    ELSE Min(Max(1, IntOr(req.page_size, 100)), 500)

ClaimedPage(req) == Max(1, IntOr(req.page, 1))

\* C10: a served page reports a page_size and holds a number of rows that do
\* not exceed min(max(1, requested), 500) under the offset strategy and
\* min(max(100, requested), 5000) under the streaming strategy; a page
\* computed for the request reports exactly that page_size and the page
\* max(1, requested).
C10_PageSizeClamped ==
    (resp.served /\ resp.http = http_ok) =>
        /\ resp.env.pagination.page_size <= ClaimedPageSize(resp.req)
        /\ Len(resp.env.data) <= ClaimedPageSize(resp.req)
        /\ ~resp.env.performance.cached =>
              /\ resp.env.pagination.page_size = ClaimedPageSize(resp.req)
              /\ resp.env.pagination.current_page = ClaimedPage(resp.req)

-----------------------------------------------------------------------------
(* Properties of the pagination strategies, checked under SpecOffset *)

\* a page the offset paginator computed for the request it answers
OffsetPageComputed ==
    /\ resp.served
    /\ resp.http = http_ok
    /\ resp.req.pagination # "streaming"
    /\ ~resp.env.performance.cached

\* C11: a page computed under the offset strategy with total_count T,
\* effective page size S and page p holds max(0, min(S, T - (p-1)*S)) rows,
\* with total_pages = ceil(T/S), has_next = (p < total_pages) and
\* has_prev = (p > 1); T is the number of rows of the queryset.
C11_OffsetPageMath ==
    OffsetPageComputed =>
        LET T == resp.env.pagination.total_count
            S == ClaimedPageSize(resp.req)
            p == ClaimedPage(resp.req)
            total_pages == resp.env.pagination.total_pages
        IN  /\ T = Len(rows)
            /\ Len(resp.env.data) = Max(0, Min(S, T - (p - 1) * S))
            /\ total_pages * S >= T
            /\ (total_pages - 1) * S < T
            /\ total_pages >= 0
            /\ resp.env.pagination.has_next = (p < total_pages)
            /\ resp.env.pagination.has_prev = (p > 1)

\* total_count 101, page_size 100, page 2: one row, no next page, a previous one
C11_LastRowOnSecondPage ==
    /\ OffsetPageComputed
    /\ resp.env.pagination.total_count = 101
    /\ resp.env.pagination.page_size = 100
    /\ resp.env.pagination.current_page = 2
    /\ Len(resp.env.data) = 1
    /\ resp.env.data[1].row_id = 101
    /\ ~resp.env.pagination.has_next
    /\ resp.env.pagination.has_prev

\* C14: a request that selects the cursor strategy is answered with the rows
\* of identity greater than the cursor and with the cursor metadata
\* next_cursor, previous_cursor, has_next and has_previous.
C14_CursorSelectorServedByCursor ==
    (resp.served /\ resp.http = http_ok /\ resp.req.pagination = "cursor") =>
        /\ {"next_cursor", "previous_cursor", "has_next", "has_previous"}
               \subseteq DOMAIN resp.env.pagination
        /\ \A i \in 1..Len(resp.env.data) :
               resp.env.data[i].row_id > IntOr(resp.req.cursor, 0)

-----------------------------------------------------------------------------
(* Properties of CSVCursorPagination, checked under SpecCursor *)

\* the identities a..b in ascending order
Ids(a, b) == [i \in 1..(b - a + 1) |-> a + i - 1]

\* C12: over rows of identities 1..M that do not change, the k-th cursor
\* call returns the k-th group of S identities in ascending order, with
\* has_next = (M > k*S), next_cursor the last identity returned, and no
\* next_cursor on the last page.
C12_CursorPagesInSequence ==
    (walk.calls >= 1 /\ walk.inserts = 0) =>
        LET M == Len(rows)
            k == walk.calls
        IN  /\ walk.page = Ids((k - 1) * cursor_page_size + 1, Min(k * cursor_page_size, M))
            /\ walk.has_next = (M > k * cursor_page_size)
            /\ walk.next_cursor = IF walk.has_next THEN Some(k * cursor_page_size)
                                  ELSE NoneValue

\* C13: no row is returned twice along the next_cursor chain, and once
\* has_next is false every row that existed at the first call has been
\* returned, whatever was inserted between the calls.
C13_WalkCoversFirstSnapshot ==
    /\ Cardinality(Range(walk.seen)) = Len(walk.seen)
    /\ (walk.calls >= 1 /\ ~walk.has_next) =>
           (1..walk.first_count) \subseteq Range(walk.seen)

-----------------------------------------------------------------------------
(* Properties of the cache bypass, checked under SpecLive *)

\* the envelope and page entries of a cache store
PageCache(c) == [k \in {x \in DOMAIN c : x[1] \in {"csv_data", "csv_page"}} |-> c[k]]

\* C15: a request with nocache=true reads and writes neither an envelope
\* entry nor a page entry of the cache, and the rows it returns are the
\* requested slice of the rows in the store at the time of the request.
C15_BypassServesLiveRows ==
    [][(nQueries' = nQueries + 1 /\ resp'.req.nocache /\ resp'.http = http_ok) =>
          LET S == resp'.env.pagination.page_size
              p == ClaimedPage(resp'.req)
              live == IF resp'.req.sort_order = "desc" THEN Reverse(rows') ELSE rows'
          IN  /\ ~resp'.env.performance.cached
              /\ \A k \in resp'.reads \cup resp'.writes : k[1] \notin {"csv_data", "csv_page"}
              /\ PageCache(cache') = PageCache(cache)
              /\ Len(resp'.env.data) = Max(0, Min(S, Len(live) - (p - 1) * S))
              /\ \A i \in 1..Len(resp'.env.data) :
                     /\ resp'.env.data[i].row_id = live[(p - 1) * S + i].id
                     /\ resp'.env.data[i].data = live[(p - 1) * S + i].data]_vars

\* a bypassed request answered after a deletion, with rows other than those
\* of the envelope an earlier request cached under the same key
C15_BypassAfterDeletion ==
    /\ resp.served
    /\ resp.http = http_ok
    /\ resp.req.nocache
    /\ Len(rows) < upload.total_rows
    /\ EnvelopeKey(resp.req) \in DOMAIN cache
    /\ cache[EnvelopeKey(resp.req)].data # resp.env.data

-----------------------------------------------------------------------------
(* Properties of search, filters, sort and projection, checked under SpecFilter *)

\* the resolved schema of the Upload
Schema == IF rows = <<>> THEN <<>> ELSE DataKeys(rows[1].data)

\* the identities of the rows a search text and a filters object match
MatchIds(search_query, filters) ==
    {r.id : r \in {x \in Range(rows) : RowMatches(x, search_query, Schema, filters)}}

OneKey(c, value) == [k \in {c} |-> value]

\* a response to a request of MatchRequests
MatchServed ==
    /\ resp.served
    /\ resp.http = http_ok
    /\ resp.req.sort_by = "id"
    /\ resp.req.columns = ""
    /\ resp.req.page = Absent

\* C16: the rows returned for filters = {c: [v1..vk]}, c a schema column,
\* are the union over i of the rows matching filters = {c: vi}.
C16_ListFilterIsUnion ==
    (MatchServed /\ Strip(resp.req.search) = "") =>
        LET F == ParsedFilters(resp.req.filters).value
        IN  \A c \in DOMAIN F :
               (DOMAIN F = {c} /\ c \in Range(Schema) /\ F[c].list) =>
                   {resp.env.data[i].row_id : i \in 1..Len(resp.env.data)}
                      = UNION {MatchIds("", OneKey(c, Scalar(F[c].items[i]))) :
                                  i \in DOMAIN F[c].items}

\* C17: the rows returned are those that the search text matches (at least
\* one schema column holds a value containing it, letter case ignored) and
\* that every filters key naming a schema column matches on its own; keys
\* naming no schema column change nothing.
C17_FiltersAndSearchOr ==
    MatchServed =>
        LET F == ParsedFilters(resp.req.filters).value
            q == Strip(resp.req.search)
            known == {c \in DOMAIN F : c \in Range(Schema)}
            expected ==
                {r.id : r \in {x \in Range(rows) :
                    /\ q # "" => \E c \in Range(Schema) :
                                    /\ x.data[c] # None
                                    /\ IContains(Chars(x.data[c]), Chars(q))
                    /\ \A c \in known : x.id \in MatchIds("", OneKey(c, F[c]))}}
        IN  /\ {resp.env.data[i].row_id : i \in 1..Len(resp.env.data)} = expected
            /\ Len(resp.env.data) = Cardinality(expected)
            /\ resp.env.pagination.total_count = Cardinality(expected)
            /\ expected = MatchIds(q, [c \in known |-> F[c]])

\* two filters keys and a search text narrowing four rows to one
C17_TwoKeysAndSearch ==
    /\ MatchServed
    /\ Len(rows) = 4
    /\ resp.req.filters = "{\"status\": \"open\", \"name\": \"an\"}"
    /\ resp.req.search = "N"
    /\ Len(resp.env.data) = 1
    /\ resp.env.data[1].row_id = 1

\* the stored value of a column of the row with an identity
Stored(id, column) == (CHOOSE r \in Range(rows) : r.id = id).data[column]

\* C18: for a sort_by naming a schema column, the page holds the rows of
\* the identity-ascending slice, ordered by the lowercased text of the
\* stored sort_by value (ascending, or descending for desc), rows of equal
\* key by identity, whatever columns are requested.
C18_PageSortedByStoredValue ==
    (resp.served /\ resp.http = http_ok /\ resp.req.sort_by \in Range(Schema)) =>
        LET S == ClaimedPageSize(resp.req)
            p == ClaimedPage(resp.req)
            slice == {rows[i].id : i \in {j \in 1..Len(rows) :
                                              (p - 1) * S < j /\ j <= p * S}}
            got == [i \in 1..Len(resp.env.data) |-> resp.env.data[i].row_id]
            key(id) == LowerRank(Stored(id, resp.req.sort_by))
        IN  /\ Range(got) = slice
            /\ Len(got) = Cardinality(slice)
            /\ \A i, j \in 1..Len(got) : i < j =>
                   /\ IF resp.req.sort_order = "desc"
                      THEN key(got[i]) >= key(got[j])
                      ELSE key(got[i]) <= key(got[j])
                   /\ key(got[i]) = key(got[j]) => got[i] < got[j]

\* the keys of the rows of a response
RowKeys == {DOMAIN resp.env.data[i].data : i \in 1..Len(resp.env.data)}

\* the requested column names that are in the schema
RequestedInSchema ==
    Range(SplitColumns(Strip(resp.req.columns))) \cap Range(Schema)

ColumnsSupplied ==
    /\ resp.served
    /\ resp.http = http_ok
    /\ Strip(resp.req.columns) # ""

\* C19 (as claimed): with a columns parameter every returned row holds
\* exactly the requested names that are in the schema.
C19_OnlyRequestedSchemaColumns ==
    ColumnsSupplied => \A keys \in RowKeys : keys = RequestedInSchema

\* C19 (amended): with a columns parameter of which at least one name is in
\* the schema every returned row holds exactly the requested names that are
\* in the schema, with their stored values; when no requested name is in the
\* schema the rows are returned with all their columns.
C19_ProjectionOrAllColumns ==
    ColumnsSupplied =>
        \A i \in 1..Len(resp.env.data) :
            LET row == resp.env.data[i]
            IN  /\ DOMAIN row.data = IF RequestedInSchema # {} THEN RequestedInSchema
                                     ELSE Range(Schema)
                /\ \A c \in DOMAIN row.data : row.data[c] = Stored(row.row_id, c)

\* a known and an unknown name requested: only the known one is returned
C19_UnknownNameDropped ==
    /\ ColumnsSupplied
    /\ resp.req.columns = "name,bogus"
    /\ Len(resp.env.data) >= 2
    /\ RowKeys = {{"name"}}

-----------------------------------------------------------------------------
(* Properties of the strategies' caching, checked under SpecQuery *)

\* C20: a request served by the streaming strategy writes no page entry and
\* no envelope entry to the cache and is not answered from a cached envelope.
C20_StreamingNeverCached ==
    (resp.served /\ resp.http = http_ok /\ IsStreaming(resp.req)) =>
        /\ ~resp.env.performance.cached
        /\ \A k \in resp.writes : k[1] \notin {"csv_data", "csv_page"}

\* C21: a served envelope that came from the cache is the envelope the view
\* computes from the row store for the same request, the cached flag aside:
\* no request of another page, page size, sort, search, columns, filters or
\* pagination strategy has left its envelope under the request's key.
C21_CacheHitIsWhatMissComputes ==
    (resp.served /\ resp.http = http_ok /\ resp.env.performance.cached) =>
        [resp.env EXCEPT !.performance.cached = FALSE] = ComputedResponse(resp.req).resp.env

-----------------------------------------------------------------------------
(* Properties of csv_upload_delete, checked under SpecDelete *)

\* C22: once csv_upload_delete has completed for the Upload (its file is
\* gone from the storage), no CSVData row references the Upload, whatever
\* its status was and whether or not an ingestion was running.
C22_NoRowsAfterDelete ==
    ~file.stored => csvDataCount = 0

-----------------------------------------------------------------------------
(* Properties of the header normalization, checked under SpecNormalize *)

\* C23: the identifiers given to the columns of a chunk are pairwise
\* distinct and non-empty, none starts with a digit, there is one per
\* header, every chunk of the file gets the same ones, and "User ID" gives
\* user_id, "2nd Name" gives col_2nd_name, ["A", "A"] gives ["a", "a_1"].
C23_IdentifiersUniqueAndNamed ==
    task.chunk >= 1 =>
        /\ Len(task.new_cols) = Len(file.header)
        /\ Cardinality(Range(task.new_cols)) = Len(task.new_cols)
        /\ \A i \in 1..Len(task.new_cols) :
              /\ task.new_cols[i] # <<>>
              /\ ~IsDigit(task.new_cols[i][1])
              /\ (file.header[i] = UserID /\ i = 1) =>
                    task.new_cols[i] = <<"u", "s", "e", "r", "_", "i", "d">>
              /\ (file.header[i] = SecondName /\ i = 1) =>
                    task.new_cols[i] = <<"c", "o", "l", "_", "2", "n", "d", "_", "n", "a", "m", "e">>
        /\ task.new_cols = task.first_cols
        /\ file.header = <<<<"A">>, <<"A">>>> => task.new_cols = <<<<"a">>, <<"a", "_", "1">>>>

\* three headers that normalize to the same base, the second being the
\* first suffixed name: a, a_1, a_2 after both chunks
C23_SuffixSkipsTakenName ==
    /\ task.chunk = 2
    /\ file.header = <<<<"A">>, <<"a", "_", "1">>, <<"a", " ">>>>
    /\ task.new_cols = <<<<"a">>, <<"a", "_", "1">>, <<"a", "_", "2">>>>

-----------------------------------------------------------------------------
(* Properties of the failure handling of the ingestion, checked under SpecIngest *)

\* C24: a failure of the progress cache write does not fail the run: no
\* step taken where the task is about to write the progress entry marks the
\* Upload failed, appends an error or schedules a retry; the run goes on to
\* the progress event.
C24_ProgressWriteFailureNotFatal ==
    [][task.pc = "cache_progress" =>
          /\ upload'.status # "failed"
          /\ upload'.errors = upload.errors
          /\ task'.retries = task.retries
          /\ task'.pc \in {"cache_progress", "emit"}]_vars

-----------------------------------------------------------------------------
(* Properties of invalidate_pattern, checked under SpecInvalidate *)

\* the prefixes csv_upload_delete invalidates
DeletePrefixes ==
    {<<"csv_data", UploadId>>, <<"csv_columns", UploadId>>, <<"csv_data_count", UploadId>>}

\* the cache key, as the view names it, starts with one of the prefixes
UnderPrefix(k) == \E prefix \in DeletePrefixes : GlobMatch(k, prefix)

\* C25: the invalidations of a delete never raise; with a backend whose
\* scan and delete work, the cache afterwards holds the entries whose key
\* starts with none of the prefixes and no other, each with its value; with
\* a backend that cannot scan or whose scan or delete fails, the cache is
\* what it was.
C25_PrefixKeysDeletedOrNoOp ==
    (resp.served /\ resp.error = "deleted") =>
        LET backend == resp.env.backend
            before == resp.env.before
        IN  /\ ~resp.env.raised
            /\ IF backend.scan = "ok" /\ backend.delete = "ok"
               THEN /\ DOMAIN cache = {k \in DOMAIN before : ~UnderPrefix(k)}
                    /\ \A k \in DOMAIN cache : cache[k] = before[k]
               ELSE cache = before

-----------------------------------------------------------------------------
(* Properties of the completion notification, checked under SpecNotify *)

\* C26: once the Upload is marked completed, no step changes the Upload
\* record or schedules a retry, whether the notification is enqueued or the
\* enqueue fails, and whether the notification task sends, skips or raises:
\* the status stays completed and no error is appended.
C26_NotificationNeverChangesOutcome ==
    [][task.pc \in {"enqueue_email", "success"} =>
          /\ upload.status = "completed"
          /\ upload' = upload
          /\ task'.retries = task.retries
          /\ task'.pc \in {"enqueue_email", "success"}
          /\ csvDataCount' = csvDataCount]_vars

\* the notification task raised, and the Upload is completed with no error
\* and no retry
C26_NotificationRaisedUploadCompleted ==
    /\ task.pc = "success"
    /\ emailQueue = <<"raised">>
    /\ upload.status = "completed"
    /\ upload.errors = <<>>
    /\ task.retries = 0
    /\ upload.processed_rows = 50001

\* C27: when an ingestion has ended, completed or failed with its retries
\* used up, the notification has been invoked exactly once for it.
C27_OneNotificationPerOutcome ==
    task.pc \in {"success", "gave_up"} => Len(emailQueue) = 1

-----------------------------------------------------------------------------
(* Properties of the chunk loop, checked under SpecIngest *)

\* C28: within one execution, a step that writes rows writes all the rows
\* of one chunk, and when it is not the first chunk of the execution the
\* rows of the chunks before it are counted in the persisted processed_rows
\* and the latest progress event reports that count; the progress entry is
\* written, and the progress event emitted, only with the chunk's count
\* persisted, the event after the cache write and before the next chunk.
C28_ChunksInSequence ==
    [][/\ csvDataCount' # csvDataCount =>
            /\ task.pc = "loop"
            /\ task'.pc = "save_progress"
            /\ csvDataCount' = csvDataCount + Chunks[task.chunk + 1]
            /\ task.chunk >= 1 =>
                  /\ upload.processed_rows = task.processed_rows
                  /\ progressEvents # <<>>
                  /\ progressEvents[Len(progressEvents)].current = task.processed_rows
                  /\ task.processed_rows = SumSeq(SubSeq(Chunks, 1, task.chunk))
       /\ (ProgressKey \in DOMAIN cache' /\ cache' # cache) =>
            /\ task.pc = "cache_progress"
            /\ task'.pc = "emit"
            /\ upload.processed_rows = task.processed_rows
            /\ cache'[ProgressKey] = Progress(upload.processed_rows, upload.total_rows)
       /\ progressEvents' # progressEvents =>
            /\ task.pc = "emit"
            /\ task'.pc = "loop"
            /\ upload.processed_rows = task.processed_rows
            /\ progressEvents' = Append(progressEvents,
                  [current |-> upload.processed_rows, total |-> upload.total_rows,
                   progress |-> Progress(upload.processed_rows, upload.total_rows)])
       /\ (task.pc = "save_progress" /\ task' # task) =>
            \/ upload'.processed_rows = task.processed_rows /\ task'.pc = "cache_progress"
            \/ task'.pc \in {"queued", "gave_up"}]_vars

\* the second chunk of a file of 100001 rows is written with the first
\* chunk's 50000 rows persisted and reported, in an execution with no fault
C28_SecondChunkAfterFirstPersisted ==
    /\ file.rows = 100001
    /\ task.chunk = 2
    /\ task.pc = "save_progress"
    /\ csvDataCount = 100000
    /\ upload.processed_rows = 50000
    /\ Len(progressEvents) = 1
    /\ faults = 0

\* the executions of process_csv_file that have ended in the except clause
FailedExecutions == task.retries + (IF task.pc = "gave_up" THEN 1 ELSE 0)

\* C29: the error list has one entry for each failed execution, a step adds
\* at most one entry, at its end, and changes none of the earlier ones, and
\* an execution that fails leaves the status failed.
C29_OneErrorPerFailedExecution ==
    [][/\ Len(upload'.errors) = FailedExecutions'
       /\ Len(upload'.errors) \in {Len(upload.errors), Len(upload.errors) + 1}
       /\ SubSeq(upload'.errors, 1, Len(upload.errors)) = upload.errors
       /\ FailedExecutions' # FailedExecutions => upload'.status = "failed"]_vars

\* C30: a failure of the progress event does not fail or stop the run: no
\* step taken where the task is about to emit the event marks the Upload
\* failed, appends an error or schedules a retry; the run goes on with the
\* loop.
C30_ProgressEventFailureNotFatal ==
    [][task.pc = "emit" =>
          /\ upload'.status = "processing"
          /\ upload'.errors = upload.errors
          /\ task'.retries = task.retries
          /\ task'.pc \in {"emit", "loop"}]_vars

-----------------------------------------------------------------------------
(* Timestamps of the Upload *)

\* C31: in every state a completed Upload has completed_at set, an Upload
\* that is pending, processing or failed has completed_at null, and an
\* Upload that is processing or completed has started_at set; completed_at
\* is written only by the step that saves status completed.
C31_TimestampsFollowStatus ==
    /\ [](/\ upload.status = "completed" => upload.completed_at = "set"
          /\ upload.status # "completed" => upload.completed_at = "null"
          /\ upload.status \in {"processing", "completed"} => upload.started_at = "set")
    /\ [][upload'.completed_at # upload.completed_at =>
              /\ upload.status = "processing"
              /\ upload'.status = "completed"
              /\ upload'.completed_at = "set"]_vars

\* C31 witness: an Upload whose first execution failed and whose retry
\* completed it; a failed Upload that had started
C31_CompletedAfterFailedExecution ==
    /\ upload.status = "completed"
    /\ upload.completed_at = "set"
    /\ upload.started_at = "set"
    /\ Len(upload.errors) >= 1
    /\ task.retries >= 1

-----------------------------------------------------------------------------
(* Termination of the ingestion *)

\* C32: under a fair job runtime every created Upload ends with status
\* completed or failed and no execution of process_csv_file pending; it does
\* not stay pending or processing for ever.
C32_EventuallyCompletedOrFailed ==
    <>[](/\ upload.exists
         /\ upload.status \in {"completed", "failed"}
         /\ task.pc \in {"success", "gave_up"})

-----------------------------------------------------------------------------
(* The counter and the row store *)

\* C33: in every state of the ingestion the persisted processed_rows is at
\* most the number of CSVData rows stored for the Upload, and no step of the
\* ingestion lowers the number of stored rows.
C33_CounterAtMostStoredRows ==
    /\ [](upload.processed_rows <= csvDataCount)
    /\ [][csvDataCount' >= csvDataCount]_vars

\* C33 witness: the second chunk is written and the counter still stands at
\* the first chunk
C33_RowsWrittenBeforeCounter ==
    /\ task.pc = "save_progress"
    /\ task.chunk = 2
    /\ upload.processed_rows = chunk_size
    /\ csvDataCount = 2 * chunk_size

-----------------------------------------------------------------------------
(* The count of a bypassed query *)

\* C34: a query with nocache=true that is answered with a page reports as
\* total_count the number of rows in the row store at the request (the
\* requests of SpecLive carry no search and no filters, so every row
\* matches), and total_pages and has_next as derived from that number.
C34_BypassCountIsLive ==
    [][(nQueries' = nQueries + 1 /\ resp'.http = http_ok /\ resp'.req.nocache) =>
           LET p == resp'.env.pagination
               live == get_pagination_metadata(p.current_page, p.page_size, Len(rows))
           IN  /\ p.total_count = Len(rows)
               /\ p.total_pages = live.total_pages
               /\ p.has_next = live.has_next]_vars

-----------------------------------------------------------------------------
(* Properties of the cache keys, checked under SpecPair *)

\* the Upload a cache key names: the second part of the envelope and
\* column-schema keys, the upload of the WHERE clause in the count key
KeyUpload(k) == IF k[1] = "csv_count" THEN k[5][2] ELSE k[2]

\* C35: a query on one Upload is answered from that Upload only, whatever
\* was queried on the other Upload before: every cache entry it reads is
\* keyed by the Upload of the request, each row of data is a row of that
\* Upload, total_count is the number of its rows matching the search, and
\* the column schema is that of its first row.
C35_AnsweredFromOwnUpload ==
    [][(nQueries' = nQueries + 1 /\ resp'.http = http_ok) =>
           LET env == resp'.env
               schema == IF rows = <<>> THEN <<>> ELSE DataKeys(rows[1].data)
               matching == Queryset(resp'.req, schema, ParsedFilters(resp'.req.filters))
           IN  /\ \A k \in resp'.reads : KeyUpload(k) = upload.id
               /\ env.upload_id = upload.id
               /\ \A i \in 1..Len(env.data) :
                     \E j \in 1..Len(rows) :
                        /\ rows[j].id = env.data[i].row_id
                        /\ rows[j].data = env.data[i].data
               /\ env.pagination.total_count = Len(matching)
               /\ env.metadata.available_columns = schema]_vars

\* C35 witness: the second Upload answered from its own cached envelope
\* while the envelope of the same request on the first Upload is cached too
C35_SameRequestOnBothUploads ==
    /\ upload.id = "u2"
    /\ resp.http = http_ok
    /\ resp.env.performance.cached
    /\ resp.env.pagination.total_count = 4
    /\ [EnvelopeKey(resp.req) EXCEPT ![2] = "u1"] \in DOMAIN cache
    /\ <<"csv_columns", "u1">> \in DOMAIN cache

-----------------------------------------------------------------------------
(* Properties of the cached marker, checked under SpecQuery *)

\* C36: a response with a page has performance.cached true exactly when the
\* request was not bypassed and its envelope key was in the cache; a
\* non-bypassed request that repeats the one before it is answered cached
\* with the data, pagination and metadata of that response; and every
\* envelope in the cache has cached false.
C36_CachedMarksEnvelopeHit ==
    [][(nQueries' = nQueries + 1 /\ resp'.http = http_ok) =>
           LET req == resp'.req
               hit == ~req.nocache /\ EnvelopeKey(req) \in DOMAIN cache
           IN  /\ resp'.env.performance.cached = hit
               /\ (resp.http = http_ok /\ resp.req = req /\ ~req.nocache) =>
                     /\ resp'.env.performance.cached
                     /\ resp'.env.data = resp.env.data
                     /\ resp'.env.pagination = resp.env.pagination
                     /\ resp'.env.metadata = resp.env.metadata
               /\ \A k \in DOMAIN cache' :
                     k[1] = "csv_data" => cache'[k].performance.cached = FALSE]_vars

\* C36 witness: the second of two identical requests, answered from the cache
C36_RepeatedRequestAnsweredCached ==
    /\ nQueries = 2
    /\ resp.http = http_ok
    /\ ~resp.req.nocache
    /\ resp.env.performance.cached
    /\ resp.reads = {EnvelopeKey(resp.req)}
    /\ Len(resp.env.data) = 3
    /\ ParsedFilters(resp.req.filters).dumps = "{}"

-----------------------------------------------------------------------------
(* Properties of the offset page's range, checked under SpecOffset *)

\* C37: a page computed under the offset strategy holds
\* max(0, range_end - range_start + 1) rows, has next_page set exactly when
\* has_next is true, and is empty with has_next false when its number is
\* beyond total_pages.
C37_RangeCountsData ==
    OffsetPageComputed =>
        LET pg == resp.env.pagination
        IN  /\ Len(resp.env.data) = Max(0, pg.range_end - pg.range_start + 1)
            /\ pg.range_start = (ClaimedPage(resp.req) - 1) * ClaimedPageSize(resp.req) + 1
            /\ (pg.next_page # 0) = pg.has_next
            /\ pg.has_next => pg.next_page = pg.current_page + 1
            /\ pg.current_page > pg.total_pages =>
                  /\ resp.env.data = <<>>
                  /\ ~pg.has_next

\* C37 witness: total_count 100, page size 50, page 3: range 101..100, no
\* rows, no next page
C37_PageBeyondTheLast ==
    /\ OffsetPageComputed
    /\ resp.env.pagination.total_count = 100
    /\ resp.env.pagination.page_size = 50
    /\ resp.env.pagination.current_page = 3
    /\ resp.env.pagination.total_pages = 2
    /\ resp.env.pagination.range_start = 101
    /\ resp.env.pagination.range_end = 100
    /\ resp.env.data = <<>>
    /\ resp.env.pagination.next_page = 0

-----------------------------------------------------------------------------
(* Properties of previous_cursor, checked under SpecCursorBack *)

\* the identities of the rows, in identity order
RowIds == [i \in 1..Len(rows) |-> rows[i].id]

\* C38: the call with the previous_cursor of a page returns the page before
\* it in identity order, that is the page_size rows with the largest
\* identities below the first row of the page (all of them when there are
\* fewer); and the page that starts at the first row of the row set reports
\* has_previous false.
C38_PreviousCursorIsPrecedingPage ==
    /\ [][walk'.backs = walk.backs + 1 =>
              LET below == SelectSeq(RowIds, LAMBDA id : id < walk.page[1])
              IN  walk'.page = SubSeq(below, Max(1, Len(below) - cursor_page_size + 1),
                                      Len(below))]_vars
    /\ []((walk.calls > 0 /\ walk.page # <<>> /\ walk.page[1] = RowIds[1])
              => ~walk.has_previous)

-----------------------------------------------------------------------------
(* Properties of the cursor page's order, checked under SpecCursor *)

\* C39: every call of CSVCursorPagination.paginate_queryset returns rows in
\* strictly ascending identity order, all of them with an identity greater
\* than the cursor of the call, for the ascending and for the descending
\* queryset.
C39_CursorPageAscending ==
    [][walk'.calls = walk.calls + 1 =>
           /\ \A i \in 1..(Len(walk'.page) - 1) : walk'.page[i] < walk'.page[i + 1]
           /\ walk.cursor.kind = "int" =>
                 \A i \in 1..Len(walk'.page) : walk'.page[i] > walk.cursor.val]_vars

====
